---- MODULE Spec2Model ----
(***************************************************************************)
(* Batch hierarchy creation of the Flame/ftrack integration.               *)
(*                                                                         *)
(* Two implementations of the batch live in the repository and both are    *)
(* modelled here over one entity store:                                    *)
(*   - FtrackConnection.create_shots_from_table (ftrack_wrapper.py),       *)
(*     specification SpecW;                                                *)
(*   - FtrackManager.create_shots_batch (ftrack_manager.py), driven by     *)
(*     FlameFtrackWindow._execute_with_progress, specification SpecM.      *)
(*                                                                         *)
(* The store is the ftrack session: entities already committed (store),    *)
(* creates not yet committed (pending).  A query sees the committed        *)
(* entities only; commit persists every pending create; rollback drops     *)
(* them.  Any session call may raise; the calls that raise in one step     *)
(* are the input F of the step.                                            *)
(***************************************************************************)
EXTENDS Bags, FiniteSets, Integers, Sequences, TLC

\* ------------------------------------------------------------------------
\* Bounds of the model
\* ------------------------------------------------------------------------
MaxRecords == 2      \* records in one shots_data table
MaxFailures == 1     \* session calls that raise in one behaviour
MaxNameLen == 3      \* characters of a status name drawn for normalize_status_name
MaxStatuses == 2     \* Status entities of a server the status lookups run against

\* ------------------------------------------------------------------------
\* Input vocabulary
\* ------------------------------------------------------------------------
\* dict.get(key, default)
Get(d, k, default) == IF k \in DOMAIN d THEN d[k] ELSE default

\* One row of the shot table.  "Task Types" is optional; thumbnail_path is
\* the path of the thumbnail exported for the shot ("" when there is none).
Row(seq_name, shot_name) ==
    ("Sequence" :> seq_name) @@ ("Shot Name" :> shot_name) @@ ("thumbnail_path" :> shot_name)

\* The value of "Task Types" is a list of type names or one string
\* (isinstance(task_types, str)).  The string is written as the tuple of its
\* pieces: "," and " " one by one, and the words between them.
TypeList(task_types) == [is_str |-> FALSE, list |-> task_types, str |-> <<>>]

TypeString(str) == [is_str |-> TRUE, list |-> <<>>, str |-> str]

RowWithTypes(seq_name, shot_name, task_types) ==
    Row(seq_name, shot_name) @@ ("Task Types" :> TypeList(task_types))

RowWithTypeString(seq_name, shot_name, str) ==
    Row(seq_name, shot_name) @@ ("Task Types" :> TypeString(str))

\* The rows a table is made of: two shots of one sequence, one of another
\* sequence, a row without a shot name; a row may name a task type twice
ShotRows ==
    { RowWithTypes("SEQ010", "SH010", <<"Compositing", "Compositing">>),
      Row("SEQ010", "SH020"),
      RowWithTypes("SEQ020", "SH010", <<"Roto">>),
      Row("SEQ010", "") }

Tables == UNION { [1..n -> ShotRows] : n \in 0..MaxRecords }

\* "Task Types" given as one string: 'Compositing, Roto ,Tracking',
\* 'Compositing,,', ' ,Roto ' and ''
Compositing_Roto_Tracking == <<"Compositing", ",", " ", "Roto", " ", ",", "Tracking">>
Compositing_Commas == <<"Compositing", ",", ",">>
Blank_Roto == <<" ", ",", "Roto", " ">>
EmptyString == <<>>

TypeStringRows ==
    { RowWithTypeString("SEQ010", "SH010", Compositing_Roto_Tracking),
      RowWithTypeString("SEQ010", "SH020", Compositing_Commas),
      RowWithTypeString("SEQ020", "SH010", Blank_Roto),
      RowWithTypeString("SEQ010", "SH020", EmptyString) }

TypeStringTables == UNION { [1..n -> TypeStringRows] : n \in 1..MaxRecords }

\* str.lower().replace(" ", "_") on the task type names of the vocabulary
LowerName(t) ==
    CASE t = "Compositing" -> "compositing"
      [] t = "Roto" -> "roto"
      [] t = "Tracking" -> "tracking"
      [] t = "Conform" -> "conform"
      [] OTHER -> t

\* ---- strings whose characters matter are tuples of characters ----
UpperCase ==
    <<"A", "B", "C", "D", "E", "F", "G", "H", "I", "J", "K", "L", "M",
      "N", "O", "P", "Q", "R", "S", "T", "U", "V", "W", "X", "Y", "Z">>

LowerCase ==
    <<"a", "b", "c", "d", "e", "f", "g", "h", "i", "j", "k", "l", "m",
      "n", "o", "p", "q", "r", "s", "t", "u", "v", "w", "x", "y", "z">>

\* Python's None among such strings
None == <<"None">>

\* str.lower() on one character
LowerChar(ch) ==
    IF \E i \in DOMAIN UpperCase : UpperCase[i] = ch
    THEN LowerCase[CHOOSE i \in DOMAIN UpperCase : UpperCase[i] = ch]
    ELSE ch

\* str.lower()
Lowered(str) == [i \in 1..Len(str) |-> LowerChar(str[i])]

\* str.replace(ch, "")
Without(str, ch) == SelectSeq(str, LAMBDA x : x # ch)

\* str.strip(" ")
RECURSIVE Strip(_)
Strip(str) ==
    IF str = <<>> THEN <<>>
    ELSE IF Head(str) = " " THEN Strip(Tail(str))
    ELSE IF str[Len(str)] = " " THEN Strip(SubSeq(str, 1, Len(str) - 1))
    ELSE str

\* str.split(sep)
RECURSIVE Split(_, _)
Split(str, sep) ==
    IF \A i \in 1..Len(str) : str[i] # sep THEN <<str>>
    ELSE LET k == CHOOSE i \in 1..Len(str) :
                      str[i] = sep /\ \A j \in 1..(i - 1) : str[j] # sep
         IN <<SubSeq(str, 1, k - 1)>> \o Split(SubSeq(str, k + 1, Len(str)), sep)

\* the string made of the pieces
RECURSIVE Join(_)
Join(pieces) == IF pieces = <<>> THEN "" ELSE Head(pieces) \o Join(Tail(pieces))

\* ------------------------------------------------------------------------
\* Entities and the session
\* ------------------------------------------------------------------------
\* parent is the path of names from the project down to the parent
Entity(kind, name, parent) == [kind |-> kind, name |-> name, parent |-> parent]

ProjectEntity == Entity("Project", "proj-001", <<>>)

\* A session call site: what raises when the store rejects a call.  The
\* reads a handler makes before its create (session.get, session.query) are
\* one site "<op>.query": whichever of them raises, nothing was sent yet.
Site(op, i) == [op |-> op, i |-> i]

\* The session as one step of a handler sees it:
\*   store, pending  committed entities and uncommitted creates (bags)
\*   conn            the client holds a session (FtrackConnection._session)
\*   F               the call sites that raise in this step
\*   raised          the sites of F that were reached and raised
\*   issued          a create, commit or upload call was sent to the session
\*   log             the entities session.create was called for and the
\*                   commits, in order
\*   res             the result dict under construction
Ctx(st, pe, conn, F, res) ==
    [store |-> st, pending |-> pe, conn |-> conn, F |-> F, raised |-> {},
     issued |-> FALSE, log |-> <<>>, res |-> res]

\* FtrackConnection.session raises when there is no session; otherwise the
\* call raises when its site is in F
Down(c, op, i) == ~c.conn \/ Site(op, i) \in c.F

Note(c, op, i) == [c EXCEPT !.raised = @ \cup ({Site(op, i)} \cap c.F)]

Ret(c, v) == [c |-> c, exc |-> FALSE, val |-> v]
Fail(c) == [c |-> c, exc |-> TRUE, val |-> "None"]
Raise(c, op, i) == Fail(Note(c, op, i))

session_create(c, e) ==
    [c EXCEPT !.pending = @ (+) SetToBag({e}), !.issued = TRUE, !.log = Append(@, e)]

\* the mark a commit leaves in the log
Commit == Entity("commit", "", <<>>)

session_commit(c) ==
    [c EXCEPT !.store = @ (+) c.pending, !.pending = EmptyBag, !.issued = TRUE,
              !.log = Append(@, Commit)]

session_rollback(c) == [c EXCEPT !.pending = EmptyBag]

Sent(c) == [c EXCEPT !.issued = TRUE]

\* session.query(...).first() / session.get(...) is not None
Found(c, e) == BagIn(e, c.store)

\* ---- the statuses of the server ----
DEFAULT_STATUS == <<"r", "e", "a", "d", "y", "_", "t", "o", "_", "s", "t", "a", "r", "t">>

\* 'pending_review', the status create_shots_batch asks for the conform task
pending_review == <<"p", "e", "n", "d", "i", "n", "g", "_", "r", "e", "v", "i", "e", "w">>

\* 'not_started', the status create_shots_from_table asks for a user task
not_started == <<"n", "o", "t", "_", "s", "t", "a", "r", "t", "e", "d">>

\* the Status list of a server that spells one status its own way
Pending_Review == <<"P", "e", "n", "d", "i", "n", "g", " ", "R", "e", "v", "i", "e", "w">>

StudioStatuses == <<DEFAULT_STATUS, Pending_Review>>

\* ------------------------------------------------------------------------
\* FtrackConnection (ftrack_wrapper.py)
\* ------------------------------------------------------------------------
\* the Status a create of the wrapper is given: the first of the names the
\* server has, else the first Status of the server (lines 548-552, 662-692)
W_status_entity(names) ==
    LET known == { n \in 1..Len(names) :
                      \E k \in 1..Len(StudioStatuses) : StudioStatuses[k] = names[n] }
    IN IF known # {}
       THEN names[CHOOSE n \in known : \A m \in known : n <= m]
       ELSE StudioStatuses[1]

W_folder_fallback(c, e) ==
    LET c0 == session_rollback(c) IN
    IF Down(c0, "folder.create", 0)
    THEN Raise(session_rollback(Sent(c0)), "folder.create", 0)
    ELSE LET c1 == session_create(c0, e) IN
         IF Down(c1, "folder.commit", 0)
         THEN Raise(session_rollback(c1), "folder.commit", 0)
         ELSE Ret(session_commit(c1), "Folder")

W_get_or_create_sequence(c, sequence_name) ==
    LET seq == Entity("Sequence", sequence_name, <<>>)
        fol == Entity("Folder", sequence_name, <<>>)
    IN
    IF Down(c, "seq.query", 0) THEN Raise(c, "seq.query", 0)
    ELSE IF Found(c, seq) THEN Ret(c, "Sequence")
    ELSE IF Found(c, fol) THEN Ret(c, "Folder")
    ELSE IF Down(c, "seq.create", 0)
         THEN W_folder_fallback(Note(Sent(c), "seq.create", 0), fol)
    ELSE LET c1 == session_create(c, seq) IN
         IF Down(c1, "seq.commit", 0)
         THEN W_folder_fallback(Note(c1, "seq.commit", 0), fol)
         ELSE Ret(session_commit(c1), "Sequence")

\* _create_shot_entity without the query for an existing shot
W_create_shot_entity_dup(c, parent, name) ==
    LET e == Entity("Shot", name, parent) IN
    IF Down(c, "shot.query", 0) THEN Raise(c, "shot.query", 0)
    ELSE IF Down(c, "shot.create", 0) THEN Raise(Sent(c), "shot.create", 0)
    ELSE LET c1 == session_create(c, e) IN
         IF Down(c1, "shot.commit", 0) THEN Raise(c1, "shot.commit", 0)
         ELSE Ret(session_commit(c1), "created")

W_create_shot_entity(c, parent, name) ==
    LET e == Entity("Shot", name, parent) IN
    IF Down(c, "shot.query", 0) THEN Raise(c, "shot.query", 0)
    ELSE IF Found(c, e) THEN Ret(c, "existed")
    ELSE IF Down(c, "shot.create", 0) THEN Raise(Sent(c), "shot.create", 0)
    ELSE LET c1 == session_create(c, e) IN
         IF Down(c1, "shot.commit", 0) THEN Raise(c1, "shot.commit", 0)
         ELSE Ret(session_commit(c1), "created")

\* returns the task dict (val TRUE) or None (val FALSE); never raises
W_create_conform_task(c, parent_id) ==
    LET e == Entity("Task", "conform", parent_id)
        shot == Entity("Shot", parent_id[2], <<parent_id[1]>>)
    IN
    IF Down(c, "conform.query", 0) THEN Ret(Note(c, "conform.query", 0), FALSE)
    ELSE IF ~Found(c, shot) THEN Ret(c, FALSE)
    ELSE IF Down(c, "conform.create", 0)
         THEN Ret(Note(Sent(c), "conform.create", 0), FALSE)
    ELSE LET c1 == session_create(session_create(c, e),
                                  Entity("status",
                                         W_status_entity(<<Pending_Review, pending_review>>),
                                         Append(parent_id, "conform")))
         IN
         IF Down(c1, "conform.commit", 0) THEN Ret(Note(c1, "conform.commit", 0), FALSE)
         ELSE Ret(session_commit(c1), TRUE)

W_create_task(c, parent_id, task_type, task_name, i) ==
    LET e == Entity("Task", task_name, parent_id) IN
    IF Down(c, "task.query", i) THEN Raise(c, "task.query", i)
    ELSE IF Down(c, "task.create", i) THEN Raise(Sent(c), "task.create", i)
    ELSE LET c1 == session_create(session_create(c, e),
                                  Entity("status", W_status_entity(<<not_started>>),
                                         Append(parent_id, task_name)))
         IN
         IF Down(c1, "task.commit", i) THEN Raise(c1, "task.commit", i)
         ELSE Ret(session_commit(c1), "created")

\* returns True / False; never raises
W_upload_thumbnail(c, entity_id, thumbnail_path, files) ==
    LET e == Entity("Thumbnail", thumbnail_path, entity_id)
        shot == Entity("Shot", entity_id[2], <<entity_id[1]>>)
    IN
    IF thumbnail_path \notin files THEN Ret(c, FALSE)
    ELSE IF Down(c, "upload.get", 0) THEN Ret(Note(c, "upload.get", 0), FALSE)
    ELSE IF ~Found(c, shot) THEN Ret(c, FALSE)
    ELSE IF Down(c, "upload.create", 0)
         THEN Ret(Note(Sent(c), "upload.create", 0), FALSE)
    ELSE LET c1 == session_create(c, e) IN
         IF Down(c1, "upload.commit", 0) THEN Ret(Note(c1, "upload.commit", 0), FALSE)
         ELSE Ret(session_commit(c1), TRUE)

\* ---- the result dict of create_shots_from_table ----
NewResult(dry) ==
    [success |-> TRUE, dry_run |-> dry,
     sequences_created |-> 0, shots_created |-> 0, shots_existed |-> 0,
     tasks_created |-> 0, conform_tasks_created |-> 0, thumbnails_uploaded |-> 0,
     errors |-> <<>>, warnings |-> <<>>]

Msg(text, name) == [text |-> text, name |-> name]

Bump(c, counter) == [c EXCEPT !.res[counter] = @ + 1]
Err(c, text, name) == [c EXCEPT !.res.errors = Append(@, Msg(text, name))]
Warn(c, text, name) == [c EXCEPT !.res.warnings = Append(@, Msg(text, name))]

\* f"SHOT_{current_step:03d}"
ShotDefault(n) == "SHOT_00" \o ToString(n)

\* ---- grouping of the rows by sequence, in first-seen order ----
GroupKey(row, default) == Get(row, "Sequence", default)

RECURSIVE FirstSeen(_, _, _, _)
FirstSeen(rows, default, i, acc) ==
    IF i > Len(rows) THEN acc
    ELSE LET n == GroupKey(rows[i], default) IN
         FirstSeen(rows, default, i + 1,
                   IF \E j \in 1..Len(acc) : acc[j] = n THEN acc ELSE Append(acc, n))

GroupRows(rows, default, seq_name) ==
    SelectSeq(rows, LAMBDA row : GroupKey(row, default) = seq_name)

\* sequences_map of create_shots_from_table
SeqNameOf(row) == GroupKey(row, "DEFAULT_SEQ")

SequenceKeys(rows) == FirstSeen(rows, "DEFAULT_SEQ", 1, <<>>)

SeqShots(rows, seq_name) == GroupRows(rows, "DEFAULT_SEQ", seq_name)

\* lines 1314-1316 without the "if t.strip()"
W_split_types_unfiltered(str) ==
    [i \in DOMAIN Split(str, ",") |-> Join(Strip(Split(str, ",")[i]))]

\* lines 1314-1316: [t.strip() for t in task_types.split(",") if t.strip()]
W_split_types(str) ==
    LET stripped == [i \in DOMAIN Split(str, ",") |-> Strip(Split(str, ",")[i])]
        kept == SelectSeq(stripped, LAMBDA t : t # <<>>)
    IN [i \in DOMAIN kept |-> Join(kept[i])]

W_task_types(row) ==
    LET task_types == Get(row, "Task Types", TypeList(<<>>)) IN
    IF task_types.is_str THEN W_split_types(task_types.str) ELSE task_types.list

\* ---- the user tasks of one shot (lines 1313-1332) ----
RECURSIVE W_tasks(_, _, _, _, _, _)
W_tasks(c, dry, shot_id, shot_name, task_types, i) ==
    IF i > Len(task_types) THEN c
    ELSE LET task_type == task_types[i]
             r == W_create_task(c, shot_id, task_type, LowerName(task_type), i)
             c1 == IF dry THEN Bump(c, "tasks_created")
                   ELSE IF r.exc THEN Warn(r.c, "Task not created", shot_name)
                   ELSE Bump(r.c, "tasks_created")
         IN W_tasks(c1, dry, shot_id, shot_name, task_types, i + 1)

\* the conform task of one shot (lines 1296-1311)
W_conform(c, dry, existed, shot_id) ==
    IF existed THEN c
    ELSE IF dry THEN Bump(c, "conform_tasks_created")
    ELSE LET k == W_create_conform_task(c, shot_id) IN
         IF k.val THEN Bump(k.c, "conform_tasks_created") ELSE k.c

\* the thumbnail of one shot (lines 1334-1342)
W_thumbnail(c, dry, shot_id, thumb_path, files) ==
    IF thumb_path # "" /\ thumb_path \in files
    THEN IF dry THEN Bump(c, "thumbnails_uploaded")
         ELSE LET u == W_upload_thumbnail(c, shot_id, thumb_path, files) IN
              IF u.val THEN Bump(u.c, "thumbnails_uploaded") ELSE u.c
    ELSE c

\* lines 1271-1290 with the exception of _create_shot_entity swallowed
W_shot_entity_swallow(c, dry, seq_name, shot_name) ==
    LET r == W_create_shot_entity(c, <<seq_name>>, shot_name) IN
    IF dry THEN Ret(Bump(c, "shots_created"), "created")
    ELSE IF r.exc THEN Ret(r.c, "existed")
    ELSE IF r.val = "existed"
         THEN Ret(Warn(Bump(r.c, "shots_existed"), "Shot already existed", shot_name),
                  "existed")
    ELSE Ret(Bump(r.c, "shots_created"), "created")

\* lines 1271-1290 without the count of the shots that existed
W_shot_entity_existed_uncounted(c, dry, seq_name, shot_name) ==
    LET r == W_create_shot_entity(c, <<seq_name>>, shot_name) IN
    IF dry THEN Ret(Bump(c, "shots_created"), "created")
    ELSE IF r.exc THEN r
    ELSE IF r.val = "existed"
         THEN Ret(Warn(r.c, "Shot already existed", shot_name), "existed")
    ELSE Ret(Bump(r.c, "shots_created"), "created")

\* the shot of one row (lines 1271-1290)
W_shot_entity(c, dry, seq_name, shot_name) ==
    LET r == W_create_shot_entity(c, <<seq_name>>, shot_name) IN
    IF dry THEN Ret(Bump(c, "shots_created"), "created")
    ELSE IF r.exc THEN r
    ELSE IF r.val = "existed"
         THEN Ret(Warn(Bump(r.c, "shots_existed"), "Shot already existed", shot_name),
                  "existed")
    ELSE Ret(Bump(r.c, "shots_created"), "created")

\* the body of the inner try of one row (lines 1271-1347)
W_row(c, dry, seq_name, row, step, files) ==
    LET shot_name == Get(row, "Shot Name", ShotDefault(step))
        shot_id == <<seq_name, shot_name>>
        r == W_shot_entity(c, dry, seq_name, shot_name)
    IN
    IF r.exc THEN Err(r.c, "Error creating shot", shot_name)
    ELSE LET c2 == W_conform(r.c, dry, r.val = "existed", shot_id)
             c3 == W_tasks(c2, dry, shot_id, shot_name, W_task_types(row), 1)
         IN W_thumbnail(c3, dry, shot_id, Get(row, "thumbnail_path", ""), files)

\* lines 1240-1254 without the dry_run branch
W_group_real(c, dry, seq_name) ==
    LET r == W_get_or_create_sequence(c, seq_name) IN
    IF r.exc THEN Fail(Err(r.c, "Error creating sequence", seq_name))
    ELSE Ret(Bump(r.c, "sequences_created"), r.val)

\* lines 1240-1254 with the shots of the group taken after the error
W_group_no_continue(c, dry, seq_name) ==
    LET r == W_get_or_create_sequence(c, seq_name) IN
    IF dry THEN Ret(Bump(c, "sequences_created"), "dry-run")
    ELSE IF r.exc THEN Ret(Err(r.c, "Error creating sequence", seq_name), "None")
    ELSE Ret(Bump(r.c, "sequences_created"), r.val)

\* the sequence of one group (lines 1240-1254)
W_group(c, dry, seq_name) ==
    LET r == W_get_or_create_sequence(c, seq_name) IN
    IF dry THEN Ret(Bump(c, "sequences_created"), "dry-run")
    ELSE IF r.exc THEN Fail(Err(r.c, "Error creating sequence", seq_name))
    ELSE Ret(Bump(r.c, "sequences_created"), r.val)

\* lines 1349-1350 without the "if result['errors']"
W_success_unguarded(res, rows) ==
    [res EXCEPT !.success = Len(res.errors) < Len(rows)]

\* the success flag after the loops (lines 1349-1350)
W_success(res, rows) ==
    IF res.errors # <<>>
    THEN [res EXCEPT !.success = Len(res.errors) < Len(rows)]
    ELSE res

\* the security validation (lines 1189-1218)
W_validate(c, validate_project) ==
    IF ~validate_project THEN Ret(c, "skipped")
    ELSE IF Down(c, "validate.get", 0)
         THEN Raise([Err(c, "Error validating project", "proj-001")
                       EXCEPT !.res.success = FALSE], "validate.get", 0)
    ELSE IF ~Found(c, ProjectEntity)
         THEN Fail([Err(c, "Project not found", "proj-001") EXCEPT !.res.success = FALSE])
    ELSE Ret(c, "validated")

\* ---- FtrackConnectionMock.create_shots_from_table (lines 1579-1637) ----
\* one pass of the loop of the mock: the counters of one row
Mock_row(res, row, seen) ==
    LET seq_name == Get(row, "Sequence", "DEFAULT_SEQ") IN
    [res EXCEPT
       !.sequences_created = IF seq_name \in seen THEN @ ELSE @ + 1,
       !.shots_created = @ + 1,
       !.conform_tasks_created = @ + 1,
       !.tasks_created = @ + Len(W_task_types(row)),
       !.thumbnails_uploaded = IF Get(row, "thumbnail_path", "") # "" THEN @ + 1 ELSE @]

RECURSIVE Mock_rows(_, _, _, _)
Mock_rows(res, rows, i, seen) ==
    IF i > Len(rows) THEN res
    ELSE Mock_rows(Mock_row(res, rows[i], seen), rows, i + 1,
                   seen \cup {Get(rows[i], "Sequence", "DEFAULT_SEQ")})

Mock_create_shots_from_table(rows, dry) == Mock_rows(NewResult(dry), rows, 1, {})

\* ------------------------------------------------------------------------
\* FtrackManager (ftrack_manager.py)
\* ------------------------------------------------------------------------
\* the entries of TYPE_MAPPING the task types of the vocabulary reach
TYPE_MAPPING ==
    ("roto" :> "Rotoscoping") @@ ("rotoscoping" :> "Rotoscoping") @@
    ("comp" :> "Compositing") @@ ("compositing" :> "Compositing") @@
    ("track" :> "Tracking") @@ ("tracking" :> "Tracking")

\* str.lower() on the task type names of the vocabulary
StrLower(t) ==
    CASE t = "Compositing" -> "compositing"
      [] t = "Roto" -> "roto"
      [] t = "Tracking" -> "tracking"
      [] t = "Conform" -> "conform"
      [] OTHER -> t

\* normalize_status_name without the lower()
normalize_keep_case(status) ==
    IF status = <<>> THEN <<>>
    ELSE Without(Without(status, "_"), " ")

normalize_status_name(status) ==
    IF status = <<>> THEN <<>>
    ELSE Without(Without(Lowered(status), "_"), " ")

\* for s in all_statuses: if normalize_status_name(s_name) == normalized:
\* the first Status of the list with that normalized name, or None
first_status(all_statuses, normalized) ==
    IF \E i \in 1..Len(all_statuses) : normalize_status_name(all_statuses[i]) = normalized
    THEN all_statuses[CHOOSE i \in 1..Len(all_statuses) :
                          /\ normalize_status_name(all_statuses[i]) = normalized
                          /\ \A j \in 1..(i - 1) :
                                 normalize_status_name(all_statuses[j]) # normalized]
    ELSE None

statuses_match(status1, status2) ==
    normalize_status_name(status1) = normalize_status_name(status2)

\* what the server answers to Type and AssetType queries: it has no
\* "Conform" type
ServerTypes == {"Compositing", "Rotoscoping"}
ServerAssetTypes == {"Upload"}

\* the lookup caches of the manager (__init__, lines 184-190)
EmptyCache == [k \in {} |-> "None"]

NewCaches ==
    [task_type_cache |-> EmptyCache, status_cache |-> EmptyCache,
     asset_type_cache |-> EmptyCache, discovered_status_cache |-> EmptyCache]

\* The manager as one step of a handler sees it: the session as in Ctx
\* (conn: self.session is not None), is_mock, the lookup caches, the Status
\* list of the server, and asked: a Status query was sent to the session
M_Ctx(st, pe, conn, mock, caches, status_list, F, res) ==
    [store |-> st, pending |-> pe, conn |-> conn, F |-> F, raised |-> {},
     issued |-> FALSE, log |-> <<>>, res |-> res, is_mock |-> mock, caches |-> caches,
     statuses |-> status_list, asked |-> FALSE]

Asked(c) == [c EXCEPT !.asked = TRUE]

\* except Exception: ... self.session.rollback(); return None
\* ---- connect, enable_mock_mode, disconnect: what they leave in is_mock,
\* _connected and session (session: the manager holds one) ----
\* connect with mock mode as the fallback of a failed connect
M_connect_fallback(ok) == [is_mock |-> ~ok, connected |-> TRUE, session |-> ok]

\* connect (lines 196-245); ok: ftrack_api.Session(...) did not raise
M_connect(ok) == [is_mock |-> FALSE, connected |-> ok, session |-> ok]

\* enable_mock_mode (lines 247-252)
M_enable_mock_mode == [is_mock |-> TRUE, connected |-> TRUE, session |-> FALSE]

\* disconnect (lines 254-263)
M_disconnect == [is_mock |-> FALSE, connected |-> FALSE, session |-> FALSE]

\* the property connected (lines 286-289)
M_connected(flag, session, mock) == flag /\ (session \/ mock)

M_none(c, op, i) == Ret(session_rollback(Note(c, op, i)), FALSE)

M_get_or_create_sequence(c, sequence_name) ==
    LET seq == Entity("Sequence", sequence_name, <<>>) IN
    IF c.is_mock THEN Ret(c, TRUE)
    ELSE IF ~c.conn THEN Ret(c, FALSE)
    ELSE IF Down(c, "seq.query", 0) THEN M_none(c, "seq.query", 0)
    ELSE IF Found(c, seq) THEN Ret(c, TRUE)
    ELSE IF ~Found(c, ProjectEntity) THEN Ret(c, FALSE)
    ELSE IF Down(c, "seq.create", 0) THEN M_none(Sent(c), "seq.create", 0)
    ELSE LET c1 == session_create(c, seq) IN
         IF Down(c1, "seq.commit", 0) THEN M_none(c1, "seq.commit", 0)
         ELSE Ret(session_commit(c1), TRUE)

M_create_shot(c, parent, shot_name) ==
    LET e == Entity("Shot", shot_name, parent) IN
    IF c.is_mock THEN Ret(c, TRUE)
    ELSE IF ~c.conn THEN Ret(c, FALSE)
    ELSE IF Down(c, "shot.query", 0) THEN M_none(c, "shot.query", 0)
    ELSE IF Found(c, e) THEN Ret(c, TRUE)
    ELSE IF Down(c, "shot.create", 0) THEN M_none(Sent(c), "shot.create", 0)
    ELSE LET c1 == session_create(c, e) IN
         IF Down(c1, "shot.commit", 0) THEN M_none(c1, "shot.commit", 0)
         ELSE Ret(session_commit(c1), TRUE)

\* returns the name of the Type entity, or "None"
M_get_task_type(c, type_name, i) ==
    LET ftrack_name == Get(TYPE_MAPPING, StrLower(type_name), type_name)
        cache == c.caches.task_type_cache
        type_entity == IF ftrack_name \in ServerTypes THEN ftrack_name
                       ELSE IF "Compositing" \in ServerTypes THEN "Compositing"
                       ELSE "None"
    IN
    IF ~c.conn THEN Ret(c, "None")
    ELSE IF ftrack_name \in DOMAIN cache THEN Ret(c, cache[ftrack_name])
    ELSE IF Down(c, "type.query", i) THEN Ret(Note(c, "type.query", i), "None")
    ELSE Ret([c EXCEPT !.caches.task_type_cache = (ftrack_name :> type_entity) @@ @],
             type_entity)

\* self._status_cache[name] = status; self._discovered_status_cache[normalized] = name
M_status_cached(c, normalized, name) ==
    [c EXCEPT !.caches.status_cache = (name :> name) @@ @,
              !.caches.discovered_status_cache = (normalized :> name) @@ @]

\* the try of _get_task_status without its except
M_status_query_raises(c, status_name, normalized, s_name, i) ==
    IF Down(c, "status.query", i) THEN Raise(Asked(c), "status.query", i)
    ELSE IF \E n \in 1..Len(c.statuses) : c.statuses[n] = status_name
         THEN Ret(M_status_cached(Asked(c), normalized, status_name), status_name)
    ELSE IF s_name # None
         THEN Ret(M_status_cached(Asked(c), normalized, s_name), s_name)
    ELSE Ret(Asked(c), None)

\* the try of _get_task_status (lines 846-877): the exact query, then the
\* scan of all statuses; the two queries are the one site "status.query"
M_status_query(c, status_name, normalized, s_name, i) ==
    IF Down(c, "status.query", i) THEN Ret(Note(Asked(c), "status.query", i), None)
    ELSE IF \E n \in 1..Len(c.statuses) : c.statuses[n] = status_name
         THEN Ret(M_status_cached(Asked(c), normalized, status_name), status_name)
    ELSE IF s_name # None
         THEN Ret(M_status_cached(Asked(c), normalized, s_name), s_name)
    ELSE Ret(Asked(c), None)

\* returns the Status entity (its name on the server), or None
M_get_task_status(c, status_name, i) ==
    LET normalized == normalize_status_name(status_name)
        status_cache == c.caches.status_cache
        discovered == c.caches.discovered_status_cache
    IN
    IF ~c.conn \/ status_name = <<>> THEN Ret(c, None)
    ELSE IF status_name \in DOMAIN status_cache THEN Ret(c, status_cache[status_name])
    ELSE IF /\ normalized \in DOMAIN discovered
            /\ discovered[normalized] \notin {None, <<>>}
            /\ discovered[normalized] \in DOMAIN status_cache
         THEN Ret(c, status_cache[discovered[normalized]])
    ELSE M_status_query(c, status_name, normalized,
                        first_status(c.statuses, normalized),
                        i)

\* the try of _discover_status_name (lines 1675-1703)
M_discover_scan(c, normalized_target, status_name, i) ==
    IF Down(c, "status.query", i) THEN Ret(Note(Asked(c), "status.query", i), None)
    ELSE Ret([Asked(c) EXCEPT !.caches.discovered_status_cache =
                                  (normalized_target :> status_name) @@ @],
             status_name)

\* returns the name of the Status on the server, or None
M_discover_status_name(c, canonical_status, i) ==
    LET normalized_target == normalize_status_name(canonical_status)
        discovered == c.caches.discovered_status_cache
    IN
    IF normalized_target \in DOMAIN discovered THEN Ret(c, discovered[normalized_target])
    ELSE IF ~c.conn THEN Ret(c, None)
    ELSE M_discover_scan(c, normalized_target,
                         first_status(c.statuses, normalized_target),
                         i)

\* strategies 2 and 3 of _assign_current_user_to_task: the Appointment is
\* tried three ways, each after a rollback of the one before
RECURSIVE M_appointment(_, _, _)
M_appointment(c, task_id, n) ==
    LET a == Entity("Appointment", "api_user", task_id) IN
    IF n > 3 THEN Ret(c, FALSE)
    ELSE IF Down(c, "assign.create", n)
         THEN M_appointment(session_rollback(Note(Sent(c), "assign.create", n)),
                            task_id, n + 1)
    ELSE LET c1 == session_create(c, a) IN
         IF Down(c1, "assign.commit", n)
         THEN M_appointment(session_rollback(Note(c1, "assign.commit", n)), task_id, n + 1)
         ELSE Ret(session_commit(c1), TRUE)

M_assign_current_user_to_task(c, task_id) ==
    IF ~c.conn THEN Ret(c, FALSE)
    ELSE IF Down(c, "assign.query", 0) THEN M_none(c, "assign.query", 0)
    ELSE IF Found(c, Entity("Appointment", "api_user", task_id)) THEN Ret(c, TRUE)
    ELSE M_appointment(c, task_id, 1)

\* the end of create_task (lines 973-979): the task is returned whatever the
\* assignment gave
M_assign_and_return(c, task_id, assign_current_user) ==
    IF assign_current_user
    THEN Ret(M_assign_current_user_to_task(c, task_id).c, TRUE)
    ELSE Ret(c, TRUE)

\* create_task, lines 960-969: the status is committed after the task
M_status_commit(c, task_id, assign_current_user, i) ==
    IF Down(c, "status.commit", i) THEN M_none(c, "status.commit", i)
    ELSE M_assign_and_return(session_commit(c), task_id, assign_current_user)

\* s: what _get_task_status returned
M_set_status(s, task_id, assign_current_user, i) ==
    IF s.val = None THEN M_assign_and_return(s.c, task_id, assign_current_user)
    ELSE M_status_commit(session_create(s.c, Entity("status", s.val, task_id)),
                         task_id, assign_current_user, i)

\* create_task, lines 950-958: the first commit, without the status
M_task_commit(c, task_id, status_name, assign_current_user, i) ==
    IF Down(c, "task.commit", i) THEN M_none(c, "task.commit", i)
    ELSE M_set_status(M_get_task_status(session_commit(c), status_name, i),
                      task_id, assign_current_user, i)

\* create_task, lines 940-949: task_data and session.create; t: what
\* _get_task_type returned
M_task_data(t, task, task_id) ==
    IF t.val = "None" THEN session_create(t.c, task)
    ELSE session_create(session_create(t.c, task), Entity("type", t.val, task_id))

M_task_create(t, task, task_id, status_name, assign_current_user, i) ==
    IF Down(t.c, "task.create", i) THEN M_none(Sent(t.c), "task.create", i)
    ELSE M_task_commit(M_task_data(t, task, task_id), task_id, status_name,
                       assign_current_user, i)

\* create_task with the status set on a task that exists already
M_create_task_overwrite(c, parent_id, task_name, task_type, status_name, assign_current_user, i) ==
    LET task == Entity("Task", task_name, parent_id)
        task_id == Append(parent_id, task_name)
    IN
    IF c.is_mock THEN Ret(c, TRUE)
    ELSE IF ~c.conn THEN Ret(c, FALSE)
    ELSE IF Down(c, "task.query", i) THEN M_none(c, "task.query", i)
    ELSE IF Found(c, task)
         THEN M_set_status(M_get_task_status(c, status_name, i), task_id,
                           assign_current_user, i)
    ELSE M_task_create(M_get_task_type(c, task_type, i), task, task_id, status_name,
                       assign_current_user, i)

\* returns the task (val TRUE) or None (val FALSE); never raises.  The type
\* and the status of a task are kept as entities under the task.
M_create_task(c, parent_id, task_name, task_type, status_name, assign_current_user, i) ==
    LET task == Entity("Task", task_name, parent_id)
        task_id == Append(parent_id, task_name)
    IN
    IF c.is_mock THEN Ret(c, TRUE)
    ELSE IF ~c.conn THEN Ret(c, FALSE)
    ELSE IF Down(c, "task.query", i) THEN M_none(c, "task.query", i)
    ELSE IF Found(c, task) THEN Ret(c, TRUE)
    ELSE M_task_create(M_get_task_type(c, task_type, i), task, task_id, status_name,
                       assign_current_user, i)

\* returns True / False; never raises, never rolls back
M_upload_thumbnail(c, entity_id, thumbnail_path, files) ==
    LET e == Entity("Thumbnail", thumbnail_path, entity_id) IN
    IF c.is_mock THEN Ret(c, TRUE)
    ELSE IF ~c.conn THEN Ret(c, FALSE)
    ELSE IF thumbnail_path = "" \/ thumbnail_path \notin files THEN Ret(c, FALSE)
    ELSE IF Down(c, "upload.create", 0) THEN Ret(Note(Sent(c), "upload.create", 0), FALSE)
    ELSE LET c1 == session_create(c, e) IN
         IF Down(c1, "upload.commit", 0) THEN Ret(Note(c1, "upload.commit", 0), FALSE)
         ELSE Ret(session_commit(c1), TRUE)

\* glob over thumb_dir: the thumbnail of a shot is a file named after it
M_find_thumbnail(files, shot_name) ==
    IF shot_name # "" /\ shot_name \in files THEN shot_name ELSE "None"

M_find_video(videos, shot_name) ==
    IF shot_name # "" /\ shot_name \in videos THEN shot_name ELSE "None"

M_get_asset_type(c, type_name) ==
    LET cache == c.caches.asset_type_cache
        asset_type == IF type_name \in ServerAssetTypes THEN type_name
                      ELSE IF ServerAssetTypes # {}
                           THEN CHOOSE t \in ServerAssetTypes : TRUE
                      ELSE "None"
    IN
    IF ~c.conn THEN Ret(c, "None")
    ELSE IF type_name \in DOMAIN cache THEN Ret(c, cache[type_name])
    ELSE IF Down(c, "assettype.query", 0) THEN Ret(Note(c, "assettype.query", 0), "None")
    ELSE Ret([c EXCEPT !.caches.asset_type_cache = (type_name :> asset_type) @@ @],
             asset_type)

\* create_version, lines 1299-1316: the asset of the shot; t: what
\* _get_asset_type returned
M_asset(t, shot_id, shot_name) ==
    LET asset == Entity("Asset", shot_name, shot_id)
        typed == Entity("type", t.val, Append(shot_id, shot_name))
    IN
    IF Down(t.c, "asset.query", 0) THEN Raise(t.c, "asset.query", 0)
    ELSE IF Found(t.c, asset) THEN Ret(t.c, "existing")
    ELSE IF Down(t.c, "asset.create", 0) THEN Raise(Sent(t.c), "asset.create", 0)
    ELSE IF Down(t.c, "asset.commit", 0)
         THEN Raise(IF t.val = "None" THEN session_create(t.c, asset)
                    ELSE session_create(session_create(t.c, asset), typed),
                    "asset.commit", 0)
    ELSE Ret(session_commit(IF t.val = "None" THEN session_create(t.c, asset)
                            ELSE session_create(session_create(t.c, asset), typed)),
             "created")

\* create_version, lines 1339-1356: the component of the version
M_component(c, asset_id) ==
    IF Down(c, "component.create", 0) THEN Raise(Sent(c), "component.create", 0)
    ELSE IF Down(c, "component.commit", 0)
         THEN Raise(session_create(c, Entity("Component", "main", asset_id)),
                    "component.commit", 0)
    ELSE Ret(session_commit(session_create(c, Entity("Component", "main", asset_id))),
             "uploaded")

\* create_version, lines 1318-1337: the version of the asset
M_version_component(c, asset_id, video_path) ==
    IF Down(c, "version.query", 0) THEN Raise(c, "version.query", 0)
    ELSE IF Down(c, "version.create", 0) THEN Raise(Sent(c), "version.create", 0)
    ELSE IF Down(c, "version.commit", 0)
         THEN Raise(session_create(c, Entity("AssetVersion", video_path, asset_id)),
                    "version.commit", 0)
    ELSE M_component(
             session_commit(session_create(c, Entity("AssetVersion", video_path, asset_id))),
             asset_id)

\* the except of create_version (lines 1361-1368): rollback, return False
M_version_done(v) ==
    IF v.exc THEN Ret(session_rollback(v.c), FALSE) ELSE Ret(v.c, TRUE)

M_version_upload(a, asset_id, video_path) ==
    IF a.exc THEN Ret(session_rollback(a.c), FALSE)
    ELSE M_version_done(M_version_component(a.c, asset_id, video_path))

\* returns True / False; never raises
M_create_version(c, shot_id, shot_name, video_path, videos) ==
    IF c.is_mock THEN Ret(c, TRUE)
    ELSE IF ~c.conn THEN Ret(c, FALSE)
    ELSE IF video_path = "" \/ video_path \notin videos THEN Ret(c, FALSE)
    ELSE M_version_upload(M_asset(M_get_asset_type(c, "Upload"), shot_id, shot_name),
                          Append(shot_id, shot_name), video_path)

\* ---- the results dict of create_shots_batch ----
NewResults ==
    [sequences |-> 0, shots |-> 0, tasks |-> 0, conform_tasks |-> 0,
     thumbnails |-> 0, versions |-> 0, errors |-> <<>>]

\* by_sequence of create_shots_batch
by_sequence_keys(rows) == FirstSeen(rows, "default", 1, <<>>)

by_sequence(rows, seq_name) == GroupRows(rows, "default", seq_name)

\* lines 1606-1608: [t.strip() for t in task_types.split(",")]
M_split_types(str) ==
    [i \in DOMAIN Split(str, ",") |-> Join(Strip(Split(str, ",")[i]))]

\* shot_data.get('Task Types', 'Compositing')
M_task_types(row) ==
    LET task_types == Get(row, "Task Types", TypeString(<<"Compositing">>)) IN
    IF task_types.is_str THEN M_split_types(task_types.str) ELSE task_types.list

\* if task: results['tasks'] += 1, and the like; r: what the call returned
M_count(r, counter) == IF r.val THEN Bump(r.c, counter) ELSE r.c

\* the user tasks of one shot (lines 1606-1621)
RECURSIVE M_tasks(_, _, _, _, _)
M_tasks(c, shot_id, task_types, status, i) ==
    IF i > Len(task_types) THEN c
    ELSE M_tasks(IF task_types[i] = "" THEN c
                 ELSE M_count(M_create_task(c, shot_id, StrLower(task_types[i]),
                                            task_types[i], status, FALSE, i),
                              "tasks"),
                 shot_id, task_types, status, i + 1)

\* the conform task of one shot (lines 1593-1603)
M_conform(c, shot_id) ==
    M_count(M_create_task(c, shot_id, "conform", "Conform", pending_review, TRUE, 0),
            "conform_tasks")

\* the thumbnail of one shot (lines 1623-1628)
M_thumbnail(c, shot_id, thumb_path, opts, files) ==
    IF opts.upload_thumbs /\ thumb_path # "None"
    THEN M_count(M_upload_thumbnail(c, shot_id, thumb_path, files), "thumbnails")
    ELSE c

\* the version of one shot (lines 1630-1635)
M_version(c, shot_id, shot_name, video_path, opts, videos) ==
    IF opts.upload_versions /\ video_path # "None"
    THEN M_count(M_create_version(c, shot_id, shot_name, video_path, videos), "versions")
    ELSE c

\* what follows create_shot in the try of one row (lines 1584-1635); s:
\* what create_shot returned.  A shot that is None leaves no trace
M_shot_body(s, shot_id, shot_name, row, opts, files, videos) ==
    IF ~s.val THEN s.c
    ELSE M_version(
             M_thumbnail(
                 M_tasks(M_conform(Bump(s.c, "shots"), shot_id), shot_id,
                         M_task_types(row), Get(row, "Status", DEFAULT_STATUS), 1),
                 shot_id, M_find_thumbnail(files, shot_name), opts, files),
             shot_id, shot_name, M_find_video(videos, shot_name), opts, videos)

\* the body of the try of one row (lines 1579-1640); create_shot,
\* create_task, upload_thumbnail and create_version return None or False
\* where the session raised, so the except of the try sees none of it
M_row(c, seq_name, row, opts, files, videos) ==
    M_shot_body(M_create_shot(c, <<seq_name>>, Get(row, "Shot Name", "")),
                <<seq_name, Get(row, "Shot Name", "")>>, Get(row, "Shot Name", ""),
                row, opts, files, videos)

\* ---- StepProgressDialog (dialogs.py) and the callback of the main window ----
\* clicked: a click on Cancel waits in the event queue; canceled: _canceled
NewProgress == [clicked |-> FALSE, canceled |-> FALSE]

\* QApplication.processEvents() delivers a waiting click to _on_cancel
set_progress(p) == [p EXCEPT !.canceled = @ \/ p.clicked]

is_canceled(p) == p.canceled

\* ftrack_progress returns None whether or not the dialog was canceled
ftrack_progress(p) ==
    LET p1 == set_progress(p) IN
    IF is_canceled(p1) THEN p1 ELSE p1

\* ------------------------------------------------------------------------
\* State
\* ------------------------------------------------------------------------
VARIABLES
    shots_data,     \* the table handed to the batch call
    files,          \* thumbnail paths for which os.path.exists is true
    videos,         \* video paths for which os.path.exists is true
    connected,      \* the client holds a session
    store,          \* committed entities (bag)
    pending,        \* creates of the session not yet committed (bag)
    reliable,       \* the store fails no call in this behaviour
    failures,       \* session calls that raised so far
    pc,             \* position of the batch call
    run,            \* "none", "first", "second": which call of the client this is
    dry_run,        \* argument of the running call
    result,         \* result dict of create_shots_from_table
    current_step,   \* rows the loop has started
    gi, si,         \* position in sequences_map and in seq_shots
    raised,         \* history: call sites that raised in this call
    issued,         \* history: this call sent a create, commit or upload
    created,        \* history: the creates and the commits of this call, in order
    store0,         \* history: the store when this call started
    first,          \* history: summary of the client's first call
    is_mock,        \* FtrackManager.is_mock
    caches,         \* the lookup caches of the FtrackManager
    results,        \* results dict of create_shots_batch
    settings,       \* arguments of the running create_shots_batch
    progress,       \* the StepProgressDialog of the main window
    statuses,       \* the Status list of the server the manager is connected to
    lookup,         \* the last status lookup of the manager and what it returned
    missed,         \* history: normalized names a lookup of this session found no Status for
    norm,           \* two status names and what normalize_status_name made of them
    calls,          \* history: the progress_callback calls and the rows that ended, in order
    m_connected,    \* FtrackManager._connected
    last_call,      \* history: the last of connect, enable_mock_mode, disconnect
    current_task,   \* TimeTrackerWindow: id of the selected task, NoTask for None
    is_tracking,    \* TimeTrackerWindow.is_tracking
    is_paused,      \* TimeTrackerWindow.is_paused
    elapsed_seconds, \* TimeTrackerWindow.elapsed_seconds
    start_btn, pause_btn, stop_btn, \* the buttons of the window are enabled
    dialog,         \* the modal dialog the window has open
    is_inactive,    \* InactivityDetector.is_inactive
    visible,        \* the window is open
    timelogs,       \* the time logs create_timelog made on the server
    timed_task,     \* history: the task that was current when the timer started
    auto_pause,     \* history: the inactivity pause in force
    ftrack_session, \* ShotTableWidget._ftrack_session is set
    ftrack_project_id, \* ShotTableWidget._ftrack_project_id
    cached_task_types, \* ShotTableWidget._cached_task_types
    loading_task_types, \* ShotTableWidget._loading_task_types
    loader_thread,  \* the TaskTypeLoader that was started last
    context_pc,     \* position of the running set_ftrack_context
    delivery,       \* the thread the finished signal runs on_loaded in
    cached_for      \* history: the project the cached list was loaded for

vars == <<shots_data, files, videos, connected, reliable, store, pending, failures, pc, run,
          dry_run, result, current_step, gi, si, raised, issued, created, store0, first,
          is_mock, caches, results, settings, progress, statuses, lookup, missed, norm,
          calls, m_connected, last_call,
          current_task, is_tracking, is_paused, elapsed_seconds, start_btn, pause_btn,
          stop_btn, dialog, is_inactive, visible, timelogs, timed_task, auto_pause,
          ftrack_session, ftrack_project_id, cached_task_types, loading_task_types,
          loader_thread, context_pc, delivery, cached_for>>

inputs == <<shots_data, files, videos, reliable>>

\* the state of the FtrackManager and of the main window
mvars == <<is_mock, caches, results, settings, progress>>

\* the state of the FtrackConnection call
wvars == <<dry_run, result, first>>

\* the connection flag of the FtrackManager and the call that set it
cvars == <<m_connected, last_call>>

\* the timer of the TimeTrackerWindow, with its buttons
timer_vars ==
    <<current_task, is_tracking, is_paused, elapsed_seconds, start_btn, pause_btn,
      stop_btn, timed_task, auto_pause>>

\* the TimeTrackerWindow
tt_vars == <<timer_vars, dialog, is_inactive, visible, timelogs>>

\* the ShotTableWidget and its loader thread
st_vars ==
    <<ftrack_session, ftrack_project_id, cached_task_types, loading_task_types,
      loader_thread, context_pc, delivery, cached_for>>

gui_vars == <<tt_vars, st_vars>>

NoTask == 0

NoProject == "None"

\* kind: "none", "switch", "save" or "close"; task_data: the task the user
\* picked; total_seconds: what _stop_and_save read before it asked; switch:
\* _select_task_with_confirmation waits for the answer
NoDialog == [kind |-> "none", task_data |-> NoTask, total_seconds |-> 0, switch |-> FALSE]

\* on: _on_inactivity paused the timer and no resume or reset followed;
\* at: elapsed_seconds at that pause; ticks: display ticks since (up to 2)
NoAutoPause == [on |-> FALSE, at |-> 0, ticks |-> 0]

\* state: "none", "running", "finished" (the signal is emitted) or
\* "cache_set" (on_loaded wrote the cache and not yet the flag)
NoLoader == [state |-> "none", project_id |-> NoProject, task_types |-> <<>>]

\* TimeTrackerWindow.__init__ and ShotTableWidget.__init__
NoGui ==
    /\ current_task = NoTask
    /\ is_tracking = FALSE
    /\ is_paused = FALSE
    /\ elapsed_seconds = 0
    /\ start_btn = FALSE
    /\ pause_btn = FALSE
    /\ stop_btn = FALSE
    /\ dialog = NoDialog
    /\ is_inactive = FALSE
    /\ visible = TRUE
    /\ timelogs = <<>>
    /\ timed_task = NoTask
    /\ auto_pause = NoAutoPause
    /\ ftrack_session = FALSE
    /\ ftrack_project_id = NoProject
    /\ cached_task_types = None
    /\ loading_task_types = FALSE
    /\ loader_thread = NoLoader
    /\ context_pc = "idle"
    /\ delivery = "queued"
    /\ cached_for = NoProject

\* op: "connect", "enable_mock_mode" or "disconnect"; ok: it did not fail
NoConnectCall == [op |-> "none", ok |-> TRUE]

\* the server's Status list and the state of the status lookups
rvars == <<statuses, lookup, missed, norm>>

\* op, name: the call; val, exc: what it returned, whether it raised;
\* asked: it sent a Status query; raised: a query of it raised; fresh: the
\* caches were empty when it started; missed: an earlier lookup of the
\* session had found no Status for the normalized name
NoLookup ==
    [op |-> "none", name |-> <<>>, val |-> None, exc |-> FALSE, asked |-> FALSE,
     raised |-> FALSE, fresh |-> FALSE, missed |-> FALSE]

NoNorm == [a |-> <<>>, b |-> <<>>, done |-> FALSE, na |-> <<>>, nb |-> <<>>, match |-> FALSE]

\* an empty project, and a project where SEQ010/SH010 was made by hand
EmptyStore == SetToBag({ProjectEntity})

HandMadeStore ==
    SetToBag({ProjectEntity, Entity("Sequence", "SEQ010", <<>>),
              Entity("Shot", "SH010", <<"SEQ010">>)})

NoSettings == [upload_thumbs |-> FALSE, upload_versions |-> FALSE, parent_type |-> "Project"]

NoCall == [dry_run |-> FALSE, store0 |-> EmptyBag, res |-> NewResult(FALSE)]

\* the clients and the store before the first call, whatever the table
Start ==
    /\ files = {"SH010"}
    /\ videos = {"SH020"}
    /\ connected \in BOOLEAN
    /\ reliable \in BOOLEAN
    /\ store \in {EmptyStore, HandMadeStore}
    /\ pending = EmptyBag
    /\ failures = 0
    /\ pc = "idle"
    /\ run = "none"
    /\ dry_run = FALSE
    /\ result = NewResult(FALSE)
    /\ current_step = 0
    /\ gi = 1
    /\ si = 1
    /\ raised = {}
    /\ issued = FALSE
    /\ created = <<>>
    /\ store0 = store
    /\ first = NoCall
    /\ is_mock = FALSE
    /\ caches = NewCaches
    /\ results = NewResults
    /\ settings = NoSettings
    /\ progress = NewProgress
    /\ statuses = StudioStatuses
    /\ lookup = NoLookup
    /\ missed = {}
    /\ norm = NoNorm
    /\ calls = <<>>
    /\ NoGui
    /\ m_connected = connected
    /\ last_call = IF connected THEN [op |-> "connect", ok |-> TRUE] ELSE NoConnectCall

Init == shots_data \in Tables /\ Start

\* the same with the tables whose "Task Types" are strings
InitT == shots_data \in TypeStringTables /\ Start

\* progress_callback was called with (current, total); the pass of the loop
\* for row number current came to its end
Callback(current, total) == [ev |-> "callback", current |-> current, total |-> total]

RowDone(current) == [ev |-> "done", current |-> current, total |-> 0]

\* the sets of call sites that may raise in one step: at most k of them
RECURSIVE UpTo(_, _)
UpTo(sites, k) ==
    IF k = 0 THEN {{}}
    ELSE LET smaller == UpTo(sites, k - 1) IN
         smaller \cup { S \cup {x} : S \in smaller, x \in sites }

Sites0(ops) == { Site(op, 0) : op \in ops }

CallSites == Sites0({"validate.get"})

GroupSites ==
    Sites0({"seq.query", "seq.create", "seq.commit",
            "folder.create", "folder.commit"})

RowSites(row) ==
    Sites0({"shot.query", "shot.create", "shot.commit",
            "conform.query", "conform.create", "conform.commit",
            "upload.get", "upload.create", "upload.commit"})
    \cup { Site(op, i) : op \in {"task.query", "task.create", "task.commit"},
                         i \in 1..Len(W_task_types(row)) }

\* A behaviour is one client session: against a store that may fail, one
\* batch call in which up to MaxFailures session calls raise; against a
\* reliable store, the batch called up to twice.
Budget == IF reliable THEN 0 ELSE MaxFailures - failures

\* what a raising call site belongs to
KindOf(op) ==
    CASE op = "validate.get" -> "validate"
      [] op = "seq.query" -> "sequence"
      [] op \in {"seq.create", "seq.commit"} -> "sequence-create"
      [] op \in {"folder.create", "folder.commit"} -> "folder"
      [] op \in {"shot.query", "shot.create", "shot.commit"} -> "shot"
      [] op \in {"conform.query", "conform.create", "conform.commit"} -> "conform"
      [] op \in {"task.query", "task.create", "task.commit"} -> "task"
      [] op \in {"upload.get", "upload.create", "upload.commit"} -> "upload"
      [] op \in {"type.query", "assettype.query"} -> "type"
      [] op = "status.query" -> "status"
      [] op = "status.commit" -> "status-commit"
      [] op \in {"assign.query", "assign.create", "assign.commit"} -> "assign"
      [] op \in {"asset.query", "asset.create", "asset.commit", "version.query",
                 "version.create", "version.commit", "component.create",
                 "component.commit"} -> "version"
      [] OTHER -> op

At(sites, n) == { [kind |-> KindOf(x.op), at |-> n] : x \in sites }

\* ------------------------------------------------------------------------
\* FtrackConnection.create_shots_from_table, step by step
\* ------------------------------------------------------------------------
Keys == SequenceKeys(shots_data)

\* the call starts: result dict, security validation, grouping
W_Call(dry, validate_project, F) ==
    /\ pc \in {"idle", "returned"}
    /\ run = "none" \/ (run = "first" /\ reliable)
    /\ LET v == W_validate(Ctx(store, pending, connected, F, NewResult(dry)),
                           validate_project)
       IN /\ v.c.raised = F
          /\ result' = v.c.res
          /\ pc' = IF v.exc THEN "returned" ELSE "sequence"
          /\ raised' = At(v.c.raised, 0)
          /\ issued' = v.c.issued
          /\ created' = v.c.log
          /\ failures' = failures + Cardinality(F)
    /\ run' = IF run = "none" THEN "first" ELSE "second"
    /\ first' = IF run = "none" THEN first
                ELSE [dry_run |-> dry_run, store0 |-> store0, res |-> result]
    /\ dry_run' = dry
    /\ current_step' = 0
    /\ gi' = 1
    /\ si' = 1
    /\ store0' = store
    /\ calls' = <<>>
    /\ UNCHANGED <<gui_vars, cvars, inputs, rvars, connected, mvars, store, pending>>

\* one pass of the outer loop up to the inner loop: the sequence of the group
W_Sequence(F) ==
    /\ pc = "sequence"
    /\ gi <= Len(Keys)
    /\ LET r == W_group(Ctx(store, pending, connected, F, result), dry_run, Keys[gi])
       IN /\ r.c.raised = F
          /\ result' = r.c.res
          /\ store' = r.c.store
          /\ pending' = r.c.pending
          /\ raised' = raised \cup At(r.c.raised, gi)
          /\ issued' = (issued \/ r.c.issued)
          /\ created' = created \o r.c.log
          /\ failures' = failures + Cardinality(F)
          /\ IF r.exc
             THEN /\ pc' = "sequence"
                  /\ gi' = gi + 1
             ELSE /\ pc' = "shot"
                  /\ gi' = gi
    /\ si' = 1
    /\ UNCHANGED <<gui_vars, cvars, inputs, rvars, calls, connected, mvars, run, dry_run, current_step, store0, first>>

\* progress_callback raised: the outer except (lines 1352-1355)
W_GeneralError ==
    /\ pc = "shot"
    /\ Budget > 0
    /\ current_step' = current_step + 1
    /\ result' = [result EXCEPT !.success = FALSE,
                                !.errors = Append(@, Msg("General error", ""))]
    /\ raised' = raised \cup At(Sites0({"callback"}), current_step + 1)
    /\ failures' = failures + 1
    /\ pc' = "returned"
    /\ calls' = Append(calls, Callback(current_step + 1, Len(shots_data)))
    /\ UNCHANGED <<gui_vars, cvars, inputs, rvars, created, connected, mvars, store, pending, run, dry_run, gi, si, issued, store0, first>>

\* one pass of the inner loop: one row
W_Shot(F) ==
    /\ pc = "shot"
    /\ LET seq_shots == SeqShots(shots_data, Keys[gi])
           c == W_row(Ctx(store, pending, connected, F, result), dry_run, Keys[gi],
                      seq_shots[si], current_step + 1, files)
       IN /\ c.raised = F
          /\ result' = c.res
          /\ store' = c.store
          /\ pending' = c.pending
          /\ raised' = raised \cup At(c.raised, current_step + 1)
          /\ issued' = (issued \/ c.issued)
          /\ created' = created \o c.log
          /\ failures' = failures + Cardinality(F)
          /\ IF si < Len(seq_shots)
             THEN /\ si' = si + 1
                  /\ gi' = gi
                  /\ pc' = "shot"
             ELSE /\ si' = 1
                  /\ gi' = gi + 1
                  /\ pc' = "sequence"
    /\ current_step' = current_step + 1
    /\ calls' = calls \o <<Callback(current_step + 1, Len(shots_data)),
                            RowDone(current_step + 1)>>
    /\ UNCHANGED <<gui_vars, cvars, inputs, rvars, connected, mvars, run, dry_run, store0, first>>

\* after the loops: the success flag (lines 1349-1350) and the return
W_Return ==
    /\ pc = "sequence"
    /\ gi > Len(Keys)
    /\ result' = W_success(result, shots_data)
    /\ pc' = "returned"
    /\ UNCHANGED <<gui_vars, cvars, inputs, rvars, calls, created, connected, mvars, store, pending, failures, run, dry_run, current_step, gi, si,
                   raised, issued, store0, first>>

\* the same call on a FtrackConnectionMock: one step, no session
Mock_Call(dry) ==
    /\ pc = "idle"
    /\ run = "none"
    /\ result' = Mock_create_shots_from_table(shots_data, dry)
    /\ dry_run' = dry
    /\ pc' = "mock_returned"
    /\ calls' = [k \in 1..(2 * Len(shots_data)) |->
                    IF k % 2 = 1 THEN Callback((k + 1) \div 2, Len(shots_data))
                    ELSE RowDone(k \div 2)]
    /\ UNCHANGED <<gui_vars, cvars, inputs, rvars, created, connected, mvars, store, pending, failures, run,
                   current_step, gi, si, raised, issued, store0, first>>

NextW ==
    \/ \E dry \in BOOLEAN, validate_project \in BOOLEAN, F \in UpTo(CallSites, Budget) :
          W_Call(dry, validate_project, F)
    \/ \E dry \in BOOLEAN : Mock_Call(dry)
    \/ \E F \in UpTo(GroupSites, Budget) : W_Sequence(F)
    \/ /\ pc = "shot"
       /\ \E F \in UpTo(RowSites(SeqShots(shots_data, Keys[gi])[si]), Budget) : W_Shot(F)
    \/ W_GeneralError
    \/ W_Return

SpecW == Init /\ [][NextW]_vars

SpecWT == InitT /\ [][NextW]_vars

\* ------------------------------------------------------------------------
\* FtrackManager.create_shots_batch under the main window, step by step
\* ------------------------------------------------------------------------
\* the Sequence the user selected when parent_type is 'Sequence'
SelectedSequence == "SEQ010"

ManagerRowSites(row) ==
    Sites0({"shot.query", "shot.create", "shot.commit", "assign.query",
            "upload.create", "upload.commit", "assettype.query", "asset.query",
            "asset.create", "asset.commit", "version.query", "version.create",
            "version.commit", "component.create", "component.commit"})
    \cup { Site(op, n) : op \in {"assign.create", "assign.commit"}, n \in 1..3 }
    \cup { Site(op, i) : op \in {"task.query", "type.query", "task.create", "task.commit",
                                 "status.query", "status.commit"},
                         i \in 0..Len(M_task_types(row)) }

by_sequence_order == by_sequence_keys(shots_data)

\* FtrackManager.enable_mock_mode
M_EnableMockMode ==
    /\ pc = "idle"
    /\ ~is_mock
    /\ is_mock' = TRUE
    /\ connected' = FALSE
    /\ m_connected' = TRUE
    /\ last_call' = [op |-> "enable_mock_mode", ok |-> TRUE]
    /\ UNCHANGED <<gui_vars, inputs, rvars, calls, created, wvars, caches, results, settings, progress, store, pending,
                   failures, pc, run, current_step, gi, si, raised, issued, store0>>

\* lines 1446-1474: the results dict, the empty table, the selected Sequence
M_entry(c, rows, parent_type) ==
    LET selected_sequence == Entity("Sequence", SelectedSequence, <<>>) IN
    IF rows = <<>> THEN Ret(c, "returned")
    ELSE IF parent_type # "Sequence" THEN Ret(c, "sequence")
    ELSE IF c.conn /\ Down(c, "selected.get", 0) THEN Raise(c, "selected.get", 0)
    ELSE IF c.is_mock \/ (c.conn /\ Found(c, selected_sequence)) THEN Ret(c, "selected")
    ELSE Ret(Err(c, "Selected sequence not found", SelectedSequence), "returned")

\* _execute_with_progress calls create_shots_batch; an exception of
\* session.get leaves the call (pc "raised")
M_Call(upload_thumbs, upload_versions, parent_type, F) ==
    /\ pc \in {"idle", "returned"}
    /\ run = "none" \/ (run = "first" /\ reliable)
    /\ LET r == M_entry(M_Ctx(store, pending, connected, is_mock, caches, statuses, F, NewResults),
                        shots_data, parent_type)
       IN /\ r.c.raised = F
          /\ results' = r.c.res
          /\ pc' = IF r.exc THEN "raised" ELSE r.val
          /\ raised' = At(r.c.raised, 0)
          /\ issued' = r.c.issued
          /\ created' = r.c.log
          /\ failures' = failures + Cardinality(F)
    /\ settings' = [upload_thumbs |-> upload_thumbs, upload_versions |-> upload_versions,
                    parent_type |-> parent_type]
    /\ progress' = NewProgress
    /\ run' = IF run = "none" THEN "first" ELSE "second"
    /\ first' = IF run = "none" THEN first
                ELSE [dry_run |-> FALSE, store0 |-> store0, res |-> results]
    /\ current_step' = 0
    /\ gi' = 1
    /\ si' = 1
    /\ store0' = store
    /\ calls' = <<>>
    /\ UNCHANGED <<gui_vars, cvars, inputs, rvars, connected, is_mock, caches, dry_run, result, store, pending>>

\* what one step of the batch leaves behind; c: the manager after the step
M_effect(c, F, at) ==
    /\ c.raised = F
    /\ results' = c.res
    /\ store' = c.store
    /\ pending' = c.pending
    /\ caches' = c.caches
    /\ raised' = raised \cup At(c.raised, at)
    /\ issued' = (issued \/ c.issued)
    /\ created' = created \o c.log
    /\ failures' = failures + Cardinality(F)

\* lines 1562-1566; r: what get_or_create_sequence returned
M_sequence_counted(r, seq_name) ==
    IF r.val THEN Ret(Bump(r.c, "sequences"), TRUE)
    ELSE Ret(Err(r.c, "Failed to create sequence", seq_name), FALSE)

M_sequence_step(r, F) ==
    /\ M_effect(r.c, F, gi)
    /\ IF r.val
       THEN /\ pc' = "shot"
            /\ gi' = gi
       ELSE /\ pc' = "sequence"
            /\ gi' = gi + 1

\* one pass of the outer loop up to the inner loop (lines 1554-1566)
M_Sequence(F) ==
    /\ pc = "sequence"
    /\ gi <= Len(by_sequence_order)
    /\ M_sequence_step(
           M_sequence_counted(
               M_get_or_create_sequence(
                   M_Ctx(store, pending, connected, is_mock, caches, statuses, F, results),
                   by_sequence_order[gi]),
               by_sequence_order[gi]),
           F)
    /\ si' = 1
    /\ UNCHANGED <<gui_vars, cvars, inputs, rvars, calls, connected, wvars, is_mock, settings, progress, run,
                   current_step, store0>>

\* one row of either loop: a row without a shot name is skipped before the
\* callback; otherwise the callback, then the body of the try
M_one_row(seq_name, row, F) ==
    IF Get(row, "Shot Name", "") = ""
    THEN /\ F = {}
         /\ UNCHANGED <<results, store, pending, caches, raised, issued, created, failures,
                        progress, calls>>
    ELSE /\ progress' = ftrack_progress(progress)
         /\ calls' = calls \o <<Callback(current_step + 1, Len(shots_data)),
                                 RowDone(current_step + 1)>>
         /\ M_effect(M_row(M_Ctx(store, pending, connected, is_mock, caches, statuses, F, results),
                           seq_name, row, settings, files, videos),
                     F, current_step + 1)

\* one pass of the inner loop (lines 1569-1640)
M_Shot(F) ==
    /\ pc = "shot"
    /\ LET shots == by_sequence(shots_data, by_sequence_order[gi])
       IN /\ M_one_row(by_sequence_order[gi], shots[si], F)
          /\ IF si < Len(shots)
             THEN /\ si' = si + 1
                  /\ gi' = gi
                  /\ pc' = "shot"
             ELSE /\ si' = 1
                  /\ gi' = gi + 1
                  /\ pc' = "sequence"
    /\ current_step' = current_step + 1
    /\ UNCHANGED <<gui_vars, cvars, inputs, rvars, connected, wvars, is_mock, settings, run, store0>>

\* one pass of the loop over the selected Sequence (lines 1479-1538)
M_SelectedShot(F) ==
    /\ pc = "selected"
    /\ si <= Len(shots_data)
    /\ M_one_row(SelectedSequence, shots_data[si], F)
    /\ si' = si + 1
    /\ current_step' = current_step + 1
    /\ UNCHANGED <<gui_vars, cvars, inputs, rvars, connected, wvars, is_mock, settings, run, gi, pc, store0>>

\* return results (line 1540, line 1642)
M_Return ==
    /\ \/ pc = "sequence" /\ gi > Len(by_sequence_order)
       \/ pc = "selected" /\ si > Len(shots_data)
    /\ pc' = "returned"
    /\ UNCHANGED <<gui_vars, cvars, inputs, rvars, calls, created, connected, wvars, mvars, store, pending, failures, run,
                   current_step, gi, si, raised, issued, store0>>

\* the user clicks Cancel while the batch runs; the click is delivered by
\* the next processEvents
ClickCancel ==
    /\ pc \in {"sequence", "shot", "selected"}
    /\ ~progress.clicked
    /\ progress' = [progress EXCEPT !.clicked = TRUE]
    /\ UNCHANGED <<gui_vars, cvars, inputs, rvars, calls, created, connected, wvars, is_mock, caches, results, settings, store,
                   pending, failures, pc, run, current_step, gi, si, raised, issued, store0>>

NextM ==
    \/ M_EnableMockMode
    \/ \E upload_thumbs \in BOOLEAN, upload_versions \in BOOLEAN,
          parent_type \in {"Project", "Sequence"},
          F \in UpTo(Sites0({"selected.get"}), Budget) :
          M_Call(upload_thumbs, upload_versions, parent_type, F)
    \/ \E F \in UpTo(Sites0({"seq.query", "seq.create", "seq.commit"}), Budget) :
          M_Sequence(F)
    \/ /\ pc = "shot"
       /\ \E F \in UpTo(ManagerRowSites(
                            by_sequence(shots_data, by_sequence_order[gi])[si]), Budget) :
             M_Shot(F)
    \/ /\ pc = "selected"
       /\ si <= Len(shots_data)
       /\ \E F \in UpTo(ManagerRowSites(shots_data[si]), Budget) : M_SelectedShot(F)
    \/ M_Return
    \/ ClickCancel

SpecM == Init /\ [][NextM]_vars

SpecMT == InitT /\ [][NextM]_vars

\* ------------------------------------------------------------------------
\* normalize_status_name and statuses_match on their own
\* ------------------------------------------------------------------------
\* no batch runs: the variables of the batches at rest
NoBatch ==
    /\ shots_data = <<>>
    /\ files = {}
    /\ videos = {}
    /\ reliable = FALSE
    /\ store = EmptyStore
    /\ pending = EmptyBag
    /\ failures = 0
    /\ pc = "idle"
    /\ run = "none"
    /\ dry_run = FALSE
    /\ result = NewResult(FALSE)
    /\ current_step = 0
    /\ gi = 1
    /\ si = 1
    /\ raised = {}
    /\ issued = FALSE
    /\ created = <<>>
    /\ store0 = EmptyStore
    /\ first = NoCall
    /\ is_mock = FALSE
    /\ results = NewResults
    /\ settings = NoSettings
    /\ progress = NewProgress
    /\ calls = <<>>

batch_vars ==
    <<shots_data, files, videos, reliable, store, pending, failures, pc, run, dry_run,
      result, current_step, gi, si, raised, issued, created, store0, first,
      results, settings, progress, calls>>

\* the spellings of one status the documentation of the function lists
In_Progress == <<"I", "n", "_", "P", "r", "o", "g", "r", "e", "s", "s">>
in_progress == <<"i", "n", "_", "p", "r", "o", "g", "r", "e", "s", "s">>
IN_PROGRESS == <<"I", "N", "_", "P", "R", "O", "G", "R", "E", "S", "S">>
in_progress_spaced == <<"i", "n", " ", "p", "r", "o", "g", "r", "e", "s", "s">>
In_Progress_trailing == Append(In_Progress, " ")

Spellings == {In_Progress, in_progress, IN_PROGRESS, in_progress_spaced, In_Progress_trailing}

\* the names the function is applied to: the spellings, and every name of
\* up to MaxNameLen characters out of a letter in both cases, "_" and " "
NameChars == {"a", "A", "_", " "}

StatusNames == Spellings \cup UNION { [1..n -> NameChars] : n \in 0..MaxNameLen }

InitN ==
    /\ NoBatch
    /\ connected = FALSE
    /\ caches = NewCaches
    /\ statuses = <<>>
    /\ lookup = NoLookup
    /\ missed = {}
    /\ m_connected = FALSE
    /\ last_call = NoConnectCall
    /\ NoGui
    /\ \E a, b \in StatusNames : norm = [NoNorm EXCEPT !.a = a, !.b = b]

N_Normalize ==
    /\ ~norm.done
    /\ norm' = [norm EXCEPT !.done = TRUE,
                            !.na = normalize_status_name(norm.a),
                            !.nb = normalize_status_name(norm.b),
                            !.match = statuses_match(norm.a, norm.b)]
    /\ UNCHANGED <<gui_vars, batch_vars, cvars, is_mock, connected, caches, statuses, lookup, missed>>

NextN == N_Normalize

SpecN == InitN /\ [][NextN]_vars

\* ------------------------------------------------------------------------
\* The status lookups of the FtrackManager over connect and disconnect
\* ------------------------------------------------------------------------
\* the names Status entities have on the servers, and the names asked for
ServerNames == { <<"a", "_", "b">>, <<"A", " ", "b">>, <<"c">> }

AskedNames == ServerNames \cup { <<"A", "_", "B">>, <<>> }

\* the Status list of a server: up to MaxStatuses entities of different names
StatusLists ==
    { list \in UNION { [1..n -> ServerNames] : n \in 0..MaxStatuses } :
          \A i, j \in 1..Len(list) : list[i] = list[j] => i = j }

\* the manager after __init__
InitR ==
    /\ NoBatch
    /\ connected = FALSE
    /\ caches = NewCaches
    /\ statuses = <<>>
    /\ lookup = NoLookup
    /\ missed = {}
    /\ norm = NoNorm
    /\ m_connected = FALSE
    /\ last_call = NoConnectCall
    /\ NoGui

\* what connect, enable_mock_mode or disconnect leaves; m: the manager after
R_connection(m, op, ok) ==
    /\ is_mock' = m.is_mock
    /\ m_connected' = m.connected
    /\ connected' = m.session
    /\ last_call' = [op |-> op, ok |-> ok]
    /\ lookup' = [NoLookup EXCEPT !.op = op, !.raised = ~ok]
    /\ missed' = {}

\* FtrackManager.connect: the session is dropped and, unless
\* ftrack_api.Session raises, replaced by one to the server; is_mock is
\* False before and after; the lookup caches are not touched
R_Connect(server, ok) ==
    /\ R_connection(M_connect(ok), "connect", ok)
    /\ statuses' = IF ok THEN server ELSE <<>>
    /\ UNCHANGED <<gui_vars, batch_vars, caches, norm>>

\* FtrackManager.enable_mock_mode: no session, no server
R_EnableMockMode ==
    /\ R_connection(M_enable_mock_mode, "enable_mock_mode", TRUE)
    /\ statuses' = <<>>
    /\ UNCHANGED <<gui_vars, batch_vars, caches, norm>>

\* FtrackManager.disconnect
R_Disconnect ==
    /\ R_connection(M_disconnect, "disconnect", TRUE)
    /\ statuses' = <<>>
    /\ UNCHANGED <<gui_vars, batch_vars, caches, norm>>

\* FtrackManager.reset_cache: the caches are emptied unless
\* session.cache.clear() raises
R_ResetCache(ok) ==
    /\ connected
    /\ caches' = IF ok THEN NewCaches ELSE caches
    /\ missed' = IF ok THEN {} ELSE missed
    /\ lookup' = [NoLookup EXCEPT !.op = "reset_cache", !.raised = ~ok]
    /\ UNCHANGED <<gui_vars, batch_vars, cvars, is_mock, connected, statuses, norm>>

\* what a status lookup leaves behind; r: what it returned
R_looked_up(r, op, name, F) ==
    /\ r.c.raised = F
    /\ caches' = r.c.caches
    /\ lookup' = [op |-> op, name |-> name, val |-> r.val, exc |-> r.exc,
                  asked |-> r.c.asked, raised |-> F # {},
                  fresh |-> caches = NewCaches,
                  missed |-> normalize_status_name(name) \in missed]
    /\ missed' = IF r.c.asked /\ F = {} /\ ~r.exc /\ r.val = None
                 THEN missed \cup {normalize_status_name(name)}
                 ELSE missed
    /\ UNCHANGED <<gui_vars, batch_vars, cvars, is_mock, connected, statuses, norm>>

R_GetTaskStatus(name, F) ==
    R_looked_up(M_get_task_status(
                    M_Ctx(store, pending, connected, is_mock, caches, statuses, F, results),
                    name, 0),
                "_get_task_status", name, F)

R_DiscoverStatusName(name, F) ==
    R_looked_up(M_discover_status_name(
                    M_Ctx(store, pending, connected, is_mock, caches, statuses, F, results),
                    name, 0),
                "_discover_status_name", name, F)

NextR ==
    \/ \E server \in StatusLists, ok \in BOOLEAN : R_Connect(server, ok)
    \/ R_EnableMockMode
    \/ R_Disconnect
    \/ \E ok \in BOOLEAN : R_ResetCache(ok)
    \/ \E name \in AskedNames, F \in SUBSET Sites0({"status.query"}) :
          R_GetTaskStatus(name, F)
    \/ \E name \in AskedNames, F \in SUBSET Sites0({"status.query"}) :
          R_DiscoverStatusName(name, F)

SpecR == InitR /\ [][NextR]_vars

\* ------------------------------------------------------------------------
\* Properties of create_shots_from_table
\* ------------------------------------------------------------------------
Returned == pc = "returned" /\ run # "none"

ShotOf(row) == Entity("Shot", Get(row, "Shot Name", ""), <<SeqNameOf(row)>>)

NamedRows == \A i \in 1..Len(shots_data) : Get(shots_data[i], "Shot Name", "") # ""

\* every row of the table asks for a shot of its own that the store does
\* not hold when the call starts
FreshRows ==
    /\ \A i \in 1..Len(shots_data) : ~BagIn(ShotOf(shots_data[i]), store0)
    /\ \A i, j \in 1..Len(shots_data) : ShotOf(shots_data[i]) = ShotOf(shots_data[j]) => i = j

\* the rows in the order the loops take them
RECURSIVE Flatten(_, _)
Flatten(keys, i) ==
    IF i > Len(keys) THEN <<>>
    ELSE SeqShots(shots_data, keys[i]) \o Flatten(keys, i + 1)

LoopOrder == Flatten(Keys, 1)

Counters(res) ==
    <<res.sequences_created, res.shots_created, res.conform_tasks_created, res.tasks_created>>

\* C1 (idempotency): when the same table is run twice for real against a
\* store that fails no call, the second call creates no shot and finds
\* every shot the first call created or found.
C1_Idempotent ==
    (Returned /\ run = "second" /\ ~first.dry_run /\ ~dry_run)
        => /\ result.shots_created = 0
           /\ result.shots_existed = first.res.shots_created + first.res.shots_existed

C1_Witness ==
    /\ Returned /\ run = "second" /\ ~first.dry_run /\ ~dry_run
    /\ first.res.shots_created = 2
    /\ result.shots_existed = 2

\* C2 (name uniqueness): the store never holds two Sequence, two Shot or
\* two Task entities with the same name under the same parent.
C2_UniqueNames ==
    \A e \in BagToSet(store) :
        e.kind \in {"Sequence", "Shot", "Task"} => CopiesIn(e, store) <= 1

\* C3 (partial failure isolation): in a real call on N named rows that each
\* ask for a new shot, when the store rejects the creation of exactly one
\* shot k and no other call fails, the result holds exactly one error,
\* shots_created = N - 1, and the shot of every row taken after k is in the
\* store.
C3_OneFailure(k) ==
    /\ Returned /\ ~dry_run /\ connected
    /\ NamedRows /\ FreshRows
    /\ raised = {[kind |-> "shot", at |-> k]}
    /\ failures = 1

C3_PartialFailureIsolation ==
    \A k \in 1..Len(shots_data) :
        C3_OneFailure(k)
            => /\ Len(result.errors) = 1
               /\ result.shots_created = Len(shots_data) - 1
               /\ \A j \in (k + 1)..Len(shots_data) : BagIn(ShotOf(LoopOrder[j]), store)

C3_Witness ==
    /\ C3_OneFailure(1)
    /\ Len(shots_data) = 2
    /\ result.shots_created = 1
    /\ BagIn(ShotOf(LoopOrder[2]), store)

\* C4 (dry-run equivalence): on an empty store that fails no call, a dry
\* run and the real run of the same table return the same
\* sequences_created, shots_created, conform_tasks_created, tasks_created.
C4_DryRunEquivalence ==
    (Returned /\ run = "second" /\ connected /\ first.dry_run /\ ~dry_run
       /\ first.store0 = EmptyStore)
        => Counters(result) = Counters(first.res)

\* C5 (dry run changes nothing): a dry-run call sends no create, no commit
\* and no upload to the session, and the store stays as it was when the
\* call started.
C5_DryRunInert ==
    (run # "none" /\ dry_run) => (~issued /\ store = store0 /\ pending = EmptyBag)

C5_Witness ==
    /\ Returned /\ dry_run
    /\ result.sequences_created = 2
    /\ result.shots_created = 2
    /\ result.conform_tasks_created = 2
    /\ result.tasks_created = 3
    /\ result.thumbnails_uploaded = 2
    /\ ~issued /\ store = store0

\* C7 (empty-name skip): a table whose rows all have an empty shot name
\* leaves every counter at 0, creates nothing in the store and records no
\* error.
C7_EmptyNameSkipped ==
    (Returned /\ connected /\ ~dry_run /\ raised = {}
       /\ \A i \in 1..Len(shots_data) : Get(shots_data[i], "Shot Name", "") = "")
        => /\ Counters(result) = <<0, 0, 0, 0>>
           /\ result.shots_existed = 0
           /\ result.thumbnails_uploaded = 0
           /\ result.errors = <<>>
           /\ store = store0

\* C9 (no failure is lost): every session call that raised during the call
\* left an entry in errors or warnings of the returned result.  (A Sequence
\* create that raised is retried as a Folder: the retry decides.)
FailureEntries(res) ==
    res.errors \o SelectSeq(res.warnings, LAMBDA m : m.text # "Shot already existed")

Unrecovered(sites) == { f \in sites : f.kind # "sequence-create" }

C9_FailuresRecorded ==
    (Returned /\ connected)
        => Len(FailureEntries(result)) >= Cardinality(Unrecovered(raised))

\* C10 (connection-level failure): when the client is not connected the call
\* returns success = False with exactly one error and every counter 0.
C10_ConnectionFailure ==
    (Returned /\ ~connected /\ raised = {} /\ shots_data # <<>>)
        => /\ result.success = FALSE
           /\ Len(result.errors) = 1
           /\ Counters(result) = <<0, 0, 0, 0>>
           /\ result.shots_existed = 0
           /\ result.thumbnails_uploaded = 0

\* ------------------------------------------------------------------------
\* Properties of create_shots_batch
\* ------------------------------------------------------------------------
ShotsIn(b) == { e \in BagToSet(b) : e.kind = "Shot" }

ConformOf(shot) == Entity("Task", "conform", Append(shot.parent, shot.name))

\* C6 (conform task exclusivity): a shot that was in the store before the
\* batch started gets no task named "conform" from the batch, and the
\* conform-task counter counts no more than the shots the batch created.
C6_ConformExclusivity ==
    (run = "first" /\ ~is_mock)
        => /\ \A shot \in ShotsIn(store0) :
                  BagIn(ConformOf(shot), store) => BagIn(ConformOf(shot), store0)
           /\ results.conform_tasks <= Cardinality(ShotsIn(store) \ ShotsIn(store0))

\* C8 (cancellation stops the batch): once the cancel flag of the progress
\* dialog is set, no later step of the batch adds a Shot to the store.
C8_CancellationStops ==
    [][progress.canceled => ShotsIn(store') \subseteq ShotsIn(store)]_vars

\* ------------------------------------------------------------------------
\* Properties of both batches
\* ------------------------------------------------------------------------
\* the entities the session holds below the sequence seq_name
Under(seq_name) ==
    { e \in BagToSet(store (+) pending) : e.parent # <<>> /\ e.parent[1] = seq_name }

\* the call left every entity below seq_name as it was when it started
Untouched(seq_name) ==
    \A e \in Under(seq_name) : CopiesIn(e, store) + CopiesIn(e, pending) = CopiesIn(e, store0)

RaisedAt(kinds, n) == \E f \in raised : f.kind \in kinds /\ f.at = n

\* the groups whose sequence the call could not reconcile: the session was
\* down, the query raised, or the create raised and so did the Folder retry
FailedGroups(keys) ==
    { n \in 1..Len(keys) : ~connected \/ RaisedAt({"sequence", "folder"}, n) }

ErrorsNaming(errs, text, name) == Len(SelectSeq(errs, LAMBDA m : m = Msg(text, name)))

\* create_shots_from_table ran both loops to their end
W_LoopsDone ==
    /\ Returned /\ ~dry_run /\ gi > Len(Keys)
    /\ \A i \in 1..Len(result.errors) :
           result.errors[i].text \notin {"Project not found", "Error validating project"}

\* C11 (group-level failure): when the sequence of a group cannot be
\* reconciled, the result holds exactly one error for the group, nothing is
\* created below the sequence of the group, and every other group is still
\* taken: each group either counts in sequences_created or has its error,
\* and the errors are the failed groups plus the shots that failed.
C11_GroupFailureIsolated ==
    W_LoopsDone
        => /\ \A n \in FailedGroups(Keys) :
                  /\ ErrorsNaming(result.errors, "Error creating sequence", Keys[n]) = 1
                  /\ Untouched(Keys[n])
           /\ result.sequences_created + Cardinality(FailedGroups(Keys)) = Len(Keys)
           /\ Len(result.errors) = Cardinality(FailedGroups(Keys))
                                   + Cardinality({ f \in raised : f.kind = "shot" })

\* the first group failed at its query, the second group got its shot
C11_Witness ==
    /\ W_LoopsDone /\ connected
    /\ Len(Keys) = 2
    /\ FailedGroups(Keys) = {1}
    /\ result.sequences_created = 1
    /\ result.shots_created = 1
    /\ Len(result.errors) = 1

\* C12 (rollback on a failed create): when a step of the batch is over, the
\* session holds no uncommitted create: a create or commit that raised was
\* rolled back.
C12_RolledBack == pending = EmptyBag

\* the same for create_shots_batch
M_LoopsDone ==
    /\ Returned /\ ~is_mock
    /\ settings.parent_type = "Project"
    /\ gi > Len(by_sequence_order)

M_FailedGroups ==
    { n \in 1..Len(by_sequence_order) :
          ~connected \/ RaisedAt({"sequence", "sequence-create"}, n) }

M_GroupFailureIsolated ==
    M_LoopsDone
        => /\ \A n \in M_FailedGroups :
                  /\ ErrorsNaming(results.errors, "Failed to create sequence",
                                  by_sequence_order[n]) = 1
                  /\ Untouched(by_sequence_order[n])
           /\ results.sequences + Cardinality(M_FailedGroups) = Len(by_sequence_order)
           /\ Len(results.errors) = Cardinality(M_FailedGroups)

M_GroupFailureWitness ==
    /\ M_LoopsDone /\ connected
    /\ Len(by_sequence_order) = 2
    /\ M_FailedGroups = {1}
    /\ results.sequences = 1
    /\ results.shots = 1

\* the type, the status and the assignments of the entity e, kept as
\* entities under it
FieldsOf(e, b) ==
    { f \in BagToSet(b) : /\ f.kind \in {"type", "status", "Appointment"}
                          /\ f.parent = Append(e.parent, e.name) }

FieldsKept ==
    \A e \in BagToSet(store) :
        e.kind \in {"Sequence", "Shot", "Task"}
            => /\ CopiesIn(e, store') = CopiesIn(e, store)
               /\ FieldsOf(e, store') = FieldsOf(e, store)
               /\ \A f \in FieldsOf(e, store) : CopiesIn(f, store') = CopiesIn(f, store)

\* the Shot and the Tasks the row asks create_shots_batch for
AskedBy(seq_name, row) ==
    LET shot_name == Get(row, "Shot Name", "")
        types == M_task_types(row)
    IN {Entity("Shot", shot_name, <<seq_name>>),
        Entity("Task", "conform", <<seq_name, shot_name>>)}
       \cup { Entity("Task", StrLower(types[i]), <<seq_name, shot_name>>) :
                  i \in { j \in 1..Len(types) : types[j] # "" } }

NothingSent == store' = store /\ pending' = pending /\ issued' = issued

\* the step ahead reconciles entities that are all in the store
SequenceFound ==
    /\ pc = "sequence" /\ gi <= Len(by_sequence_order)
    /\ connected /\ ~is_mock
    /\ BagIn(Entity("Sequence", by_sequence_order[gi], <<>>), store)

RowFound ==
    /\ pc = "shot"
    /\ connected /\ ~is_mock
    /\ ~settings.upload_thumbs /\ ~settings.upload_versions
    /\ \A e \in AskedBy(by_sequence_order[gi],
                        by_sequence(shots_data, by_sequence_order[gi])[si]) :
           BagIn(e, store)

\* every query of the step returned: no call of the session raised in it
QueriesReturned == raised' = raised

\* C13 (reconciliation never overwrites): no step of the batch changes a
\* Sequence, Shot or Task the store already holds, nor its type, status or
\* assignments; and a step whose queries find its Sequence, or its Shot and
\* Tasks, in the store sends no create and no commit.
C13_NeverOverwrites ==
    [][/\ FieldsKept
       /\ ((SequenceFound \/ RowFound) /\ QueriesReturned) => NothingSent]_vars

\* a second call that found the shots and the tasks the first call made
C13_Witness ==
    /\ Returned /\ run = "second" /\ connected /\ ~is_mock
    /\ settings.parent_type = "Project"
    /\ results.shots = 2 /\ results.tasks = 3 /\ results.conform_tasks = 2
    /\ store = store0 /\ ~issued
    /\ \E e \in BagToSet(store) : e.kind = "Task" /\ FieldsOf(e, store) # {}

\* ------------------------------------------------------------------------
\* Properties of the user tasks
\* ------------------------------------------------------------------------
\* the table is one row for a new, named shot, and no session call raised
OneNewShot ==
    /\ Returned /\ connected /\ raised = {}
    /\ Len(shots_data) = 1
    /\ Get(shots_data[1], "Shot Name", "") # ""
    /\ ~BagIn(ShotOf(shots_data[1]), store0)

\* the user tasks the store holds under the shot of the row
UserTasks(row) ==
    { e \in BagToSet(store) : /\ e.kind = "Task" /\ e.name # "conform"
                              /\ e.parent = <<SeqNameOf(row), Get(row, "Shot Name", "")>> }

\* the names of the user tasks the call created, in the order of creation
RECURSIVE NamesOf(_)
NamesOf(entities) ==
    IF entities = <<>> THEN <<>> ELSE <<Head(entities).name>> \o NamesOf(Tail(entities))

UserTasksCreated ==
    NamesOf(SelectSeq(created, LAMBDA e : e.kind = "Task" /\ e.name # "conform"))

\* the tasks each of the strings asks for
TasksAskedFor(str) ==
    CASE str = Compositing_Roto_Tracking -> <<"compositing", "roto", "tracking">>
      [] str = Compositing_Commas -> <<"compositing">>
      [] str = Blank_Roto -> <<"roto">>
      [] str = EmptyString -> <<>>

OneStringRow ==
    /\ OneNewShot
    /\ "Task Types" \in DOMAIN shots_data[1]
    /\ shots_data[1]["Task Types"].is_str

\* C19 (task type parsing): for a "Task Types" string the batch creates one
\* user task per token that is not empty after trimming, in the order of the
\* tokens, and none for an empty token: 'Compositing, Roto ,Tracking' gives
\* the three tasks, 'Compositing,,' gives one.
C19_TaskTypeParsing ==
    (OneStringRow /\ ~dry_run)
        => /\ UserTasksCreated = TasksAskedFor(shots_data[1]["Task Types"].str)
           /\ result.tasks_created = Len(UserTasksCreated)
           /\ \A i \in 1..Len(UserTasksCreated) :
                  \E e \in UserTasks(shots_data[1]) : e.name = UserTasksCreated[i]

C19_Witness ==
    /\ OneStringRow /\ ~dry_run
    /\ shots_data[1]["Task Types"].str = Compositing_Roto_Tracking
    /\ UserTasksCreated = <<"compositing", "roto", "tracking">>
    /\ result.tasks_created = 3

\* the same for create_shots_batch
M_TaskTypeParsing ==
    (OneStringRow /\ ~is_mock /\ settings.parent_type = "Project")
        => /\ UserTasksCreated = TasksAskedFor(shots_data[1]["Task Types"].str)
           /\ results.tasks = Len(UserTasksCreated)
           /\ \A i \in 1..Len(UserTasksCreated) :
                  \E e \in UserTasks(shots_data[1]) : e.name = UserTasksCreated[i]

M_TaskTypeParsingWitness ==
    /\ OneStringRow /\ ~is_mock /\ settings.parent_type = "Project"
    /\ shots_data[1]["Task Types"].str = Compositing_Commas
    /\ UserTasksCreated = <<"compositing">>
    /\ results.tasks = 1

\* C20 (default task types): for a row without a "Task Types" field the
\* batch creates exactly one user task under the shot, the Compositing
\* task, and counts one task created.
C20_DefaultTaskTypes ==
    (OneNewShot /\ ~dry_run /\ "Task Types" \notin DOMAIN shots_data[1])
        => /\ result.tasks_created = 1
           /\ UserTasks(shots_data[1])
                  = {Entity("Task", "compositing",
                            <<SeqNameOf(shots_data[1]), Get(shots_data[1], "Shot Name", "")>>)}

\* the same for create_shots_batch
M_DefaultTaskTypes ==
    (OneNewShot /\ ~is_mock /\ settings.parent_type = "Project"
       /\ "Task Types" \notin DOMAIN shots_data[1])
        => /\ results.tasks = 1
           /\ UserTasks(shots_data[1])
                  = {Entity("Task", "compositing",
                            <<SeqNameOf(shots_data[1]), Get(shots_data[1], "Shot Name", "")>>)}
           /\ BagIn(Entity("type", "Compositing",
                           <<SeqNameOf(shots_data[1]), Get(shots_data[1], "Shot Name", ""),
                             "compositing">>), store)

\* ------------------------------------------------------------------------
\* Properties of normalize_status_name
\* ------------------------------------------------------------------------
\* two names differ only in letter case, in "_" versus " ", or in leading
\* and trailing spaces when they have the same Spelled
Spelled(str) == Strip([i \in 1..Len(str) |-> IF LowerChar(str[i]) = "_" THEN " "
                                             ELSE LowerChar(str[i])])

inprogress == <<"i", "n", "p", "r", "o", "g", "r", "e", "s", "s">>

\* C18 (status normalization): two names that differ only in letter case,
\* in underscores versus spaces, or in leading and trailing spaces have the
\* same normalize_status_name, so statuses_match holds for them; each of
\* the listed spellings of "in progress" normalizes to "inprogress".
C18_NormalizeAgrees ==
    norm.done
        => /\ Spelled(norm.a) = Spelled(norm.b) => (norm.na = norm.nb /\ norm.match)
           /\ norm.a \in Spellings => norm.na = inprogress

C18_Witness ==
    /\ norm.done
    /\ norm.a = In_Progress_trailing /\ norm.b = in_progress_spaced
    /\ norm.na = inprogress /\ norm.nb = inprogress /\ norm.match

\* ------------------------------------------------------------------------
\* Properties of the status lookups
\* ------------------------------------------------------------------------
Resolvers == {"_get_task_status", "_discover_status_name"}

Range(list) == { list[i] : i \in 1..Len(list) }

\* C14 (negative results are cached): once a lookup of the session has
\* found no Status for a normalized name, a later lookup of a name with the
\* same normalized form returns None and sends no query to the store, until
\* the cache is reset.
C14_NegativeCached ==
    (lookup.op \in Resolvers /\ lookup.missed) => (lookup.val = None /\ ~lookup.asked)

\* C15 (resolver failure mode): a status lookup whose store query raises
\* returns None and raises nothing.
C15_FailureIsNone ==
    (lookup.op \in Resolvers /\ lookup.raised) => (~lookup.exc /\ lookup.val = None)

C15_Witness ==
    /\ lookup.op = "_get_task_status" /\ lookup.raised /\ lookup.asked
    /\ lookup.name \in Range(statuses)
    /\ ~lookup.exc /\ lookup.val = None

\* what the resolver is to return for the name on a server with this list
Resolved(list, name) ==
    LET same == { i \in 1..Len(list) : statuses_match(list[i], name) } IN
    IF name \in Range(list) THEN name
    ELSE IF same = {} THEN None
    ELSE list[CHOOSE i \in same : \A j \in same : i <= j]

\* C16 (resolver result): with empty caches and no query that raises, a
\* lookup of a name returns the Status of exactly that name when the server
\* has one, otherwise the first Status of the server's list with the same
\* normalized name, and None only when the server has no such Status.
C16_ResolverResult ==
    (lookup.op \in Resolvers /\ connected /\ lookup.fresh /\ ~lookup.raised
       /\ lookup.name # <<>>)
        => lookup.val = Resolved(statuses, lookup.name)

\* C17 (the caches are per session): a status lookup on a connected manager
\* returns no name other than those of the Status entities of the server it
\* is connected to.
C17_CachePerSession ==
    (lookup.op \in Resolvers /\ connected /\ lookup.val # None)
        => lookup.val \in Range(statuses)

\* ------------------------------------------------------------------------
\* Properties of the returned result
\* ------------------------------------------------------------------------
\* C21 (success flag): a call on a connected client returns success = True
\* exactly when it recorded fewer errors than the table has rows, the empty
\* table and the table whose shots all failed included.
\* the call passed the validation and ran both loops to their end
W_Completed ==
    /\ Returned /\ gi > Len(Keys)
    /\ \A i \in 1..Len(result.errors) :
           result.errors[i].text \notin {"Project not found", "Error validating project"}

C21_SuccessFlag ==
    (W_Completed /\ connected)
        => (result.success <=> Len(result.errors) < Len(shots_data))

\* C21 as the code has it: success = True exactly when the call recorded no
\* error, or fewer errors than the table has rows.
C21_SuccessFlagAmended ==
    (W_Completed /\ connected)
        => (result.success <=> (result.errors = <<>>
                                 \/ Len(result.errors) < Len(shots_data)))

\* the empty table returned success; one of two shots failed and the call
\* returned success; both failed and it returned failure
C21_Witness == W_Completed /\ connected /\ shots_data = <<>> /\ result.success

C21_WitnessPartial ==
    /\ W_Completed /\ connected /\ ~dry_run
    /\ Len(shots_data) = 2 /\ Len(result.errors) = 1 /\ result.success

C21_WitnessTotal ==
    /\ W_Completed /\ connected /\ ~dry_run
    /\ Len(shots_data) = 1 /\ Len(result.errors) = 1 /\ ~result.success

\* the call, on the real client or on the mock, returned from a store that
\* was empty and failed no call
CleanRun ==
    /\ \/ Returned /\ connected /\ gi > Len(Keys)
       \/ pc = "mock_returned"
    /\ store0 = EmptyStore
    /\ raised = {}
    /\ NamedRows

SequenceNames == { SeqNameOf(shots_data[i]) : i \in 1..Len(shots_data) }

ShotNames == { ShotOf(shots_data[i]) : i \in 1..Len(shots_data) }

RECURSIVE TaskTypesOf(_, _)
TaskTypesOf(rows, i) ==
    IF i > Len(rows) THEN 0 ELSE Len(W_task_types(rows[i])) + TaskTypesOf(rows, i + 1)

CleanCounts ==
    /\ result.sequences_created = Cardinality(SequenceNames)
    /\ result.shots_created = Cardinality(ShotNames)
    /\ result.conform_tasks_created = result.shots_created
    /\ result.tasks_created = TaskTypesOf(shots_data, 1)
    /\ result.errors = <<>>

\* C22 (counts of a clean run): a call on records with non-empty shot names,
\* against an empty store that fails no call, returns sequences_created =
\* the distinct sequence names, shots_created = the distinct (sequence,
\* shot) names, conform_tasks_created = shots_created, tasks_created = the
\* parsed task types of all records, and no error.
C22_CleanRunCounts == CleanRun => CleanCounts

\* the same for the real call of the real client alone
C22_RealRunCounts == (CleanRun /\ Returned /\ ~dry_run) => CleanCounts

\* a real call that took the same shot twice
C22_RealRunWitness ==
    /\ CleanRun /\ Returned /\ ~dry_run
    /\ Len(shots_data) = 2 /\ Cardinality(ShotNames) = 1
    /\ result.shots_created = 1 /\ result.shots_existed = 1
    /\ result.tasks_created = 4

\* ------------------------------------------------------------------------
\* Properties of the progress reports
\* ------------------------------------------------------------------------
\* the positions of calls where progress_callback was called
CallbackAt == { i \in 1..Len(calls) : calls[i].ev = "callback" }

\* the rows whose pass of the loop ended
RowsDone == { calls[i].current : i \in { j \in 1..Len(calls) : calls[j].ev = "done" } }

\* each row that was taken was reported once, with an index that goes up by
\* one from 1 and stays within the total
ReportedOnceInOrder ==
    /\ \A k \in RowsDone : Cardinality({ i \in CallbackAt : calls[i].current = k }) = 1
    /\ \A i \in CallbackAt :
           /\ calls[i].current = Cardinality({ j \in CallbackAt : j <= i })
           /\ calls[i].current <= calls[i].total

\* C23 (progress reporting order): for every shot of a processed group
\* progress_callback is called exactly once, after the processing of the
\* shot has finished, with a running index that goes up by 1 per shot and
\* never exceeds the total shot count.
C23_ProgressAfterShot ==
    (pc # "mock_returned" /\ run # "none")
        => /\ ReportedOnceInOrder
           /\ \A i \in CallbackAt :
                  \E j \in 1..(i - 1) : calls[j] = RowDone(calls[i].current)

\* what create_shots_from_table does: the report comes before the shot
C23_ProgressBeforeShot ==
    (pc # "mock_returned" /\ run # "none" /\ ~is_mock)
        => /\ ReportedOnceInOrder
           /\ \A k \in RowsDone :
                  \E i \in CallbackAt :
                      /\ calls[i].current = k
                      /\ i < Len(calls) /\ calls[i + 1] = RowDone(k)

\* ------------------------------------------------------------------------
\* Properties of the status of a new task
\* ------------------------------------------------------------------------
TaskIdOf(e) == Append(e.parent, e.name)

\* the positions of created where the status of a task was set
StatusSetAt == { i \in 1..Len(created) : created[i].kind = "status" }

\* the task was created and committed before its status was set
StatusAfterCommit ==
    \A i \in StatusSetAt :
        \E j \in 1..(i - 1), k \in 1..(i - 1) :
            /\ j < k
            /\ created[j].kind = "Task" /\ TaskIdOf(created[j]) = created[i].parent
            /\ created[k] = Commit

\* the tasks this call created that the store holds without a status
WithoutStatus ==
    { i \in 1..Len(created) :
          /\ created[i].kind = "Task"
          /\ BagIn(created[i], store)
          /\ ~\E f \in BagToSet(store) :
                  f.kind = "status" /\ f.parent = TaskIdOf(created[i]) }

\* a call of create_shots_batch on one named row returned, and the only
\* calls that raised in it were Status queries
StatusUnresolved ==
    /\ Returned /\ connected /\ ~is_mock
    /\ settings.parent_type = "Project"
    /\ Len(shots_data) = 1 /\ NamedRows
    /\ raised # {}
    /\ \A f \in raised : f.kind = "status"

\* C24 (two-phase task status): a new task is created and committed without
\* a status, and only then its status is set and committed; when the status
\* cannot be resolved the task stays in the store without it and still
\* counts as created.
C24_TwoPhaseStatus ==
    /\ StatusAfterCommit
    /\ StatusUnresolved
           => /\ WithoutStatus # {}
              /\ \A e \in AskedBy(Get(shots_data[1], "Sequence", "DEFAULT_SEQ"), shots_data[1]) :
                     BagIn(e, store)
              /\ results.conform_tasks = 1
              /\ results.tasks
                     = Len(SelectSeq(M_task_types(shots_data[1]), LAMBDA t : t # ""))

\* create_shots_batch resolved no status for the conform task of its one
\* row: the task is in the store and counted
M_TwoPhaseWitness ==
    /\ StatusUnresolved
    /\ \E i \in WithoutStatus : created[i].name = "conform"
    /\ results.conform_tasks = 1
    /\ \E i \in StatusSetAt : TRUE

\* ------------------------------------------------------------------------
\* Properties of the failures inside a shot
\* ------------------------------------------------------------------------
\* a real call on named rows for new shots returned, and the one call that
\* raised in it belongs to a sub-operation of kind k of row n
OneFailureInside(k, n) ==
    /\ Returned /\ ~dry_run /\ connected /\ gi > Len(Keys)
    /\ NamedRows /\ FreshRows
    /\ raised = {[kind |-> k, at |-> n]}
    /\ failures = 1

\* the shot of the row stays counted, the other tasks are created and
\* counted, no error is recorded
DegradedCounts(k) ==
    /\ result.shots_created = Len(shots_data)
    /\ result.errors = <<>>
    /\ result.conform_tasks_created + result.tasks_created
           = Len(shots_data) + TaskTypesOf(shots_data, 1) - (IF k = "upload" THEN 0 ELSE 1)

\* C25 (failures inside a shot degrade to warnings): when the creation of
\* the conform task, of one user task, or the thumbnail upload of a shot
\* fails, the shot stays counted as created, the other tasks of the shot
\* are created and counted, errors stays empty and one warning is recorded
\* for the failed sub-operation.
C25_DegradeToWarnings ==
    \A k \in {"conform", "task", "upload"}, n \in 1..Len(shots_data) :
        OneFailureInside(k, n) => (DegradedCounts(k) /\ Len(result.warnings) = 1)

\* the same without the warning
C25_DegradedCounts ==
    \A k \in {"conform", "task", "upload"}, n \in 1..Len(shots_data) :
        OneFailureInside(k, n) => DegradedCounts(k)

\* the failure of a user task alone, warning included
C25_TaskFailureWarned ==
    \A n \in 1..Len(shots_data) :
        OneFailureInside("task", n) => (DegradedCounts("task") /\ Len(result.warnings) = 1)

C25_TaskFailureWitness ==
    /\ OneFailureInside("task", 1)
    /\ result.tasks_created = 1
    /\ Len(result.warnings) = 1

\* ------------------------------------------------------------------------
\* Properties of the accounting of the records
\* ------------------------------------------------------------------------
\* the groups whose sequence was reconciled: no error names their sequence
ReconciledGroups ==
    { n \in 1..Len(Keys) :
          ErrorsNaming(result.errors, "Error creating sequence", Keys[n]) = 0 }

RECURSIVE RecordsIn(_, _)
RecordsIn(groups, n) ==
    IF n > Len(Keys) THEN 0
    ELSE (IF n \in groups THEN Len(SeqShots(shots_data, Keys[n])) ELSE 0)
         + RecordsIn(groups, n + 1)

ShotErrors == Len(SelectSeq(result.errors, LAMBDA m : m.text = "Error creating shot"))

\* C30 (every record is accounted for exactly once): when a real call of
\* create_shots_from_table returns without a general error, shots_created +
\* shots_existed + the shot-level errors is the number of records of the
\* groups whose sequence was reconciled.
C30_RecordsAccounted ==
    W_LoopsDone
        => result.shots_created + result.shots_existed + ShotErrors
               = RecordsIn(ReconciledGroups, 1)

\* one record found its shot, the other failed
C30_Witness ==
    /\ W_LoopsDone /\ connected
    /\ Len(shots_data) = 2
    /\ result.shots_existed = 1
    /\ ShotErrors = 1
    /\ RecordsIn(ReconciledGroups, 1) = 2

\* one group failed, the record of the other was created
C30_WitnessGroup ==
    /\ W_LoopsDone /\ connected
    /\ Len(shots_data) = 2
    /\ result.shots_created = 1
    /\ RecordsIn(ReconciledGroups, 1) = 1

\* ------------------------------------------------------------------------
\* Properties of the connection state
\* ------------------------------------------------------------------------
\* C26 (no silent fallback to mock mode): after any sequence of connect,
\* enable_mock_mode and disconnect, is_mock is True only if the last of
\* them was enable_mock_mode; a failed connect leaves is_mock False and
\* connected False.
C26_NoSilentMock ==
    /\ is_mock => last_call.op = "enable_mock_mode"
    /\ (last_call.op = "connect" /\ ~last_call.ok)
           => (~is_mock /\ ~M_connected(m_connected, connected, is_mock))

\* a connect failed on a manager with filled caches and a status lookup
\* followed it
C26_Witness ==
    /\ last_call.op = "connect" /\ ~last_call.ok
    /\ lookup.op = "_get_task_status"
    /\ ~is_mock /\ ~m_connected /\ ~connected
    /\ caches # NewCaches

\* mock mode is on, after enable_mock_mode
C26_WitnessMock ==
    /\ is_mock /\ last_call.op = "enable_mock_mode"
    /\ M_connected(m_connected, connected, is_mock)
    /\ caches # NewCaches

\* ------------------------------------------------------------------------
\* TimeTrackerWindow (gui/time_tracker.py): the timer, the inactivity
\* detector and the confirmation dialogs
\* ------------------------------------------------------------------------
MaxTasks == 2

MaxSeconds == 3

MaxTimelogs == 2

\* the ids of the tasks in the list and in the history of the window
TaskIds == 1..MaxTasks

\* the variables no action of the window and of the shot table touches
core_vars == <<batch_vars, cvars, is_mock, connected, caches, rvars>>

\* the timer as one record, for the methods that call one another
T_Now ==
    [current_task |-> current_task, is_tracking |-> is_tracking, is_paused |-> is_paused,
     elapsed_seconds |-> elapsed_seconds, start_btn |-> start_btn, pause_btn |-> pause_btn,
     stop_btn |-> stop_btn, timed_task |-> timed_task, auto_pause |-> auto_pause]

T_Set(t) ==
    /\ current_task' = t.current_task
    /\ is_tracking' = t.is_tracking
    /\ is_paused' = t.is_paused
    /\ elapsed_seconds' = t.elapsed_seconds
    /\ start_btn' = t.start_btn
    /\ pause_btn' = t.pause_btn
    /\ stop_btn' = t.stop_btn
    /\ timed_task' = t.timed_task
    /\ auto_pause' = t.auto_pause

\* _start_timer
T_start_timer(t) ==
    IF t.current_task = NoTask THEN t
    ELSE [t EXCEPT !.is_tracking = TRUE, !.is_paused = FALSE, !.elapsed_seconds = 0,
                   !.start_btn = FALSE, !.pause_btn = TRUE, !.stop_btn = TRUE,
                   !.timed_task = t.current_task]

\* _pause_timer
T_pause_timer(t) ==
    IF ~t.is_tracking THEN t
    ELSE [t EXCEPT !.is_paused = TRUE, !.start_btn = TRUE, !.pause_btn = FALSE]

\* _resume_timer
T_resume_timer(t) ==
    IF ~t.is_tracking THEN t
    ELSE [t EXCEPT !.is_paused = FALSE, !.start_btn = FALSE, !.pause_btn = TRUE,
                   !.auto_pause = NoAutoPause]

\* _toggle_pause
T_toggle_pause(t) ==
    IF ~t.is_tracking THEN t
    ELSE IF t.is_paused THEN T_resume_timer(t) ELSE T_pause_timer(t)

\* _reset_timer
T_reset_timer(t) ==
    [t EXCEPT !.is_tracking = FALSE, !.is_paused = FALSE, !.elapsed_seconds = 0,
              !.start_btn = (t.current_task # NoTask), !.pause_btn = FALSE,
              !.stop_btn = FALSE, !.auto_pause = NoAutoPause]

\* the end of _select_task_with_confirmation: the new task is selected
T_select(t, task_data) == [t EXCEPT !.current_task = task_data, !.start_btn = TRUE]

\* _on_inactivity
T_on_inactivity(t) ==
    IF t.is_tracking /\ ~t.is_paused
    THEN [T_pause_timer(t) EXCEPT
              !.auto_pause = [on |-> TRUE, at |-> t.elapsed_seconds, ticks |-> 0]]
    ELSE t

\* a display tick that counts while the timer is paused
T_update_display_paused(t) ==
    IF t.is_tracking
    THEN [t EXCEPT !.elapsed_seconds = @ + 1]
    ELSE t

\* _update_display: one more second while the timer runs
T_update_display(t) ==
    IF t.is_tracking /\ ~t.is_paused
    THEN [t EXCEPT !.elapsed_seconds = @ + 1]
    ELSE t

\* the ticks an inactivity pause has seen
T_ticked(t) ==
    IF t.auto_pause.on /\ t.auto_pause.ticks < 2
    THEN [t EXCEPT !.auto_pause.ticks = @ + 1]
    ELSE t

\* the window after __init__; the manager is at rest
InitTT ==
    /\ NoBatch
    /\ connected = FALSE
    /\ caches = NewCaches
    /\ statuses = <<>>
    /\ lookup = NoLookup
    /\ missed = {}
    /\ norm = NoNorm
    /\ m_connected = FALSE
    /\ last_call = NoConnectCall
    /\ NoGui

\* the user does something in the window: eventFilter registers the activity
\* before the handler runs
T_User ==
    /\ visible
    /\ is_inactive' = FALSE

\* a task of the list or of the history is chosen
T_SelectTask(task_data) ==
    /\ T_User
    /\ dialog.kind = "none"
    /\ IF is_tracking
       THEN /\ dialog' = [NoDialog EXCEPT !.kind = "switch", !.task_data = task_data]
            /\ UNCHANGED timer_vars
       ELSE /\ T_Set(T_select(T_Now, task_data))
            /\ UNCHANGED dialog
    /\ UNCHANGED <<visible, timelogs, st_vars, core_vars>>

\* _stop_and_save up to its question; switch: the task switch called it
T_stop_and_save(task_data, switch) ==
    IF ~is_tracking
    THEN /\ T_Set(IF switch THEN T_select(T_Now, task_data) ELSE T_Now)
         /\ dialog' = NoDialog
    ELSE /\ dialog' = [kind |-> "save", task_data |-> task_data,
                       total_seconds |-> elapsed_seconds, switch |-> switch]
         /\ UNCHANGED timer_vars

\* closeEvent
T_closeEvent ==
    IF is_tracking
    THEN /\ dialog' = [NoDialog EXCEPT !.kind = "close"]
         /\ UNCHANGED visible
    ELSE /\ dialog' = NoDialog
         /\ visible' = FALSE

\* the answer to the "Timer Running" dialog of the task switch
T_SwitchReply(reply) ==
    /\ T_User
    /\ dialog.kind = "switch"
    /\ CASE reply = "save_and_switch" ->
                /\ T_stop_and_save(dialog.task_data, TRUE)
                /\ UNCHANGED visible
         [] reply = "discard_and_switch" ->
                /\ T_Set(T_select(T_reset_timer(T_Now), dialog.task_data))
                /\ dialog' = NoDialog
                /\ UNCHANGED visible
         [] reply = "close_app" ->
                /\ T_closeEvent
                /\ UNCHANGED timer_vars
         [] OTHER ->
                /\ dialog' = NoDialog
                /\ UNCHANGED <<timer_vars, visible>>
    /\ UNCHANGED <<timelogs, st_vars, core_vars>>

\* the Stop button, or the stop button of the mini timer (_stop_tracking)
T_Stop(mini) ==
    /\ T_User
    /\ dialog.kind = "none"
    /\ mini \/ stop_btn
    /\ T_stop_and_save(NoTask, FALSE)
    /\ UNCHANGED <<visible, timelogs, st_vars, core_vars>>

\* the answer to "Save Time Log?", and what follows it in _stop_and_save and
\* in _select_task_with_confirmation; success: create_timelog returned True
T_SaveReply(reply, success) ==
    /\ T_User
    /\ dialog.kind = "save"
    /\ Len(timelogs) < MaxTimelogs
    /\ LET saved == reply = "Yes" /\ success /\ current_task # NoTask
           t1 == IF reply = "Cancel" THEN T_Now ELSE T_reset_timer(T_Now)
           t2 == IF dialog.switch THEN T_select(t1, dialog.task_data) ELSE t1
       IN /\ timelogs' = IF saved
                         THEN Append(timelogs, [task_id |-> current_task,
                                                total_seconds |-> dialog.total_seconds,
                                                timed |-> timed_task])
                         ELSE timelogs
          /\ T_Set(t2)
    /\ dialog' = NoDialog
    /\ UNCHANGED <<visible, st_vars, core_vars>>

\* _on_start_clicked
T_StartClicked ==
    /\ T_User
    /\ dialog.kind = "none"
    /\ start_btn
    /\ T_Set(IF is_paused THEN T_resume_timer(T_Now) ELSE T_start_timer(T_Now))
    /\ UNCHANGED <<dialog, visible, timelogs, st_vars, core_vars>>

\* _on_pause_clicked
T_PauseClicked ==
    /\ T_User
    /\ dialog.kind = "none"
    /\ pause_btn
    /\ T_Set(T_pause_timer(T_Now))
    /\ UNCHANGED <<dialog, visible, timelogs, st_vars, core_vars>>

\* the play/pause button of the mini timer
T_TogglePause ==
    /\ T_User
    /\ dialog.kind = "none"
    /\ T_Set(T_toggle_pause(T_Now))
    /\ UNCHANGED <<dialog, visible, timelogs, st_vars, core_vars>>

\* the display timer fires, whatever dialog is open
T_UpdateDisplay ==
    /\ T_update_display(T_Now).elapsed_seconds <= MaxSeconds
    /\ T_Set(T_ticked(T_update_display(T_Now)))
    /\ UNCHANGED <<dialog, is_inactive, visible, timelogs, st_vars, core_vars>>

\* InactivityDetector._check_inactivity after timeout seconds without
\* activity: the signal runs _on_inactivity
T_CheckInactivity ==
    /\ ~is_inactive
    /\ is_inactive' = TRUE
    /\ T_Set(T_on_inactivity(T_Now))
    /\ UNCHANGED <<dialog, visible, timelogs, st_vars, core_vars>>

\* InactivityDetector.register_activity on a mouse move or a key
T_RegisterActivity ==
    /\ is_inactive
    /\ is_inactive' = FALSE
    /\ UNCHANGED <<timer_vars, dialog, visible, timelogs, st_vars, core_vars>>

\* the window is closed by the user
T_Close ==
    /\ T_User
    /\ dialog.kind = "none"
    /\ T_closeEvent
    /\ UNCHANGED <<timer_vars, timelogs, st_vars, core_vars>>

\* the answer to the "Timer Running" question of closeEvent
T_CloseReply(yes) ==
    /\ dialog.kind = "close"
    /\ is_inactive' = FALSE
    /\ visible' = ~yes
    /\ dialog' = NoDialog
    /\ UNCHANGED <<timer_vars, timelogs, st_vars, core_vars>>

\* show_time_tracker on the window that exists
T_Show ==
    /\ ~visible
    /\ visible' = TRUE
    /\ UNCHANGED <<timer_vars, dialog, is_inactive, timelogs, st_vars, core_vars>>

NextTT ==
    \/ \E task_data \in TaskIds : T_SelectTask(task_data)
    \/ \E reply \in {"save_and_switch", "discard_and_switch", "close_app", "cancel"} :
           T_SwitchReply(reply)
    \/ \E mini \in BOOLEAN : T_Stop(mini)
    \/ \E reply \in {"Yes", "No", "Cancel"}, success \in BOOLEAN : T_SaveReply(reply, success)
    \/ T_StartClicked
    \/ T_PauseClicked
    \/ T_TogglePause
    \/ T_UpdateDisplay
    \/ T_CheckInactivity
    \/ T_RegisterActivity
    \/ T_Close
    \/ \E yes \in BOOLEAN : T_CloseReply(yes)
    \/ T_Show

SpecTT == InitTT /\ [][NextTT]_vars

\* C27 (tracked time stays with its task): while is_tracking is True the
\* current task is the task the timer was started on, whatever the user
\* answers in the switch dialog and in the save dialog, and every time log
\* was saved to the task its seconds were accumulated on.
C27_TimeStaysWithTask ==
    /\ is_tracking => current_task = timed_task
    /\ \A i \in 1..Len(timelogs) : timelogs[i].task_id = timelogs[i].timed

\* C28 (auto-pause on inactivity): once the inactivity detector fired on a
\* running timer, the timer is paused and elapsed_seconds keeps the value it
\* had, over every display tick, until the user resumes or the timer is
\* reset.
C28_AutoPause ==
    auto_pause.on => /\ is_tracking
                     /\ is_paused
                     /\ elapsed_seconds = auto_pause.at

\* the display ticked on a timer the detector paused after a second or more
C28_Witness ==
    /\ auto_pause.on
    /\ auto_pause.ticks >= 1
    /\ auto_pause.at > 0
    /\ is_paused
    /\ elapsed_seconds = auto_pause.at

\* ------------------------------------------------------------------------
\* ShotTableWidget (gui/shot_table.py): set_ftrack_context and the task
\* types its loader thread brings
\* ------------------------------------------------------------------------
\* the project ids the main window hands over (always a session and an id)
ProjectIds == {"proj-001", "proj-002", "proj-003"}

\* the sorted names of schema.get_types('Task') of a project
ProjectTaskTypes(project_id) ==
    CASE project_id = "proj-001" -> <<"Animation", "Compositing">>
      [] project_id = "proj-002" -> <<"Compositing", "Roto">>
      [] OTHER -> <<"Lighting">>

\* the widget after __init__; the finished signal of a loader runs
\* on_loaded either in the thread of the widget, between its handlers, or
\* in the loader thread, between any two statements of the widget
InitST ==
    /\ NoBatch
    /\ connected = FALSE
    /\ caches = NewCaches
    /\ statuses = <<>>
    /\ lookup = NoLookup
    /\ missed = {}
    /\ norm = NoNorm
    /\ m_connected = FALSE
    /\ last_call = NoConnectCall
    /\ current_task = NoTask
    /\ is_tracking = FALSE
    /\ is_paused = FALSE
    /\ elapsed_seconds = 0
    /\ start_btn = FALSE
    /\ pause_btn = FALSE
    /\ stop_btn = FALSE
    /\ dialog = NoDialog
    /\ is_inactive = FALSE
    /\ visible = TRUE
    /\ timelogs = <<>>
    /\ timed_task = NoTask
    /\ auto_pause = NoAutoPause
    /\ ftrack_session = FALSE
    /\ ftrack_project_id = NoProject
    /\ cached_task_types = None
    /\ loading_task_types = FALSE
    /\ loader_thread = NoLoader
    /\ context_pc = "idle"
    /\ delivery \in {"queued", "direct"}
    /\ cached_for = NoProject

\* set_ftrack_context, lines 54-55: the session and the project id
ST_SetContext(project_id) ==
    /\ context_pc = "idle"
    /\ ftrack_session' = TRUE
    /\ ftrack_project_id' = project_id
    /\ context_pc' = "context_set"
    /\ UNCHANGED <<cached_task_types, cached_for, loading_task_types, loader_thread,
                   delivery, tt_vars, core_vars>>

\* set_ftrack_context, line 56: the cache is cleared
ST_ClearCache ==
    /\ context_pc = "context_set"
    /\ cached_task_types' = None
    /\ cached_for' = NoProject
    /\ context_pc' = "cache_cleared"
    /\ UNCHANGED <<ftrack_session, ftrack_project_id, loading_task_types, loader_thread,
                   delivery, tt_vars, core_vars>>

\* _preload_task_types: nothing while a load is running, else a loader
\* thread for the session and the project id of now is started
ST_preload_task_types ==
    IF loading_task_types \/ ~ftrack_session \/ ftrack_project_id = NoProject
    THEN UNCHANGED <<loading_task_types, loader_thread>>
    ELSE /\ loading_task_types' = TRUE
         /\ loader_thread' = [state |-> "running", project_id |-> ftrack_project_id,
                              task_types |-> <<>>]

\* set_ftrack_context, line 60
ST_Preload ==
    /\ context_pc = "cache_cleared"
    /\ ST_preload_task_types
    /\ context_pc' = "idle"
    /\ UNCHANGED <<ftrack_session, ftrack_project_id, cached_task_types, cached_for,
                   delivery, tt_vars, core_vars>>

\* TaskTypeLoader.run: the types of its own project id, or [] when the
\* query raised, are emitted
ST_LoaderRun(ok) ==
    /\ loader_thread.state = "running"
    /\ loader_thread' =
           [loader_thread EXCEPT
                !.state = "finished",
                !.task_types = IF ok THEN ProjectTaskTypes(loader_thread.project_id)
                               ELSE <<>>]
    /\ UNCHANGED <<ftrack_session, ftrack_project_id, cached_task_types, cached_for,
                   loading_task_types, context_pc, delivery, tt_vars, core_vars>>

\* on_loaded, line 103
ST_on_loaded_cache ==
    /\ cached_task_types' = loader_thread.task_types
    /\ cached_for' = loader_thread.project_id

\* on_loaded, line 104
ST_on_loaded_flag ==
    /\ loading_task_types' = FALSE
    /\ loader_thread' = NoLoader

\* on_loaded run by the event loop of the widget's thread
ST_OnLoadedQueued ==
    /\ delivery = "queued"
    /\ context_pc = "idle"
    /\ loader_thread.state = "finished"
    /\ ST_on_loaded_cache
    /\ ST_on_loaded_flag
    /\ UNCHANGED <<ftrack_session, ftrack_project_id, context_pc, delivery, tt_vars,
                   core_vars>>

\* on_loaded run in the loader thread: its first statement
ST_OnLoadedCache ==
    /\ delivery = "direct"
    /\ loader_thread.state = "finished"
    /\ ST_on_loaded_cache
    /\ loader_thread' = [loader_thread EXCEPT !.state = "cache_set"]
    /\ UNCHANGED <<ftrack_session, ftrack_project_id, loading_task_types, context_pc,
                   delivery, tt_vars, core_vars>>

\* on_loaded run in the loader thread: its second statement
ST_OnLoadedFlag ==
    /\ delivery = "direct"
    /\ loader_thread.state = "cache_set"
    /\ ST_on_loaded_flag
    /\ UNCHANGED <<ftrack_session, ftrack_project_id, cached_task_types, cached_for,
                   context_pc, delivery, tt_vars, core_vars>>

NextST ==
    \/ \E project_id \in ProjectIds : ST_SetContext(project_id)
    \/ ST_ClearCache
    \/ ST_Preload
    \/ \E ok \in BOOLEAN : ST_LoaderRun(ok)
    \/ ST_OnLoadedQueued
    \/ ST_OnLoadedCache
    \/ ST_OnLoadedFlag

SpecST == InitST /\ [][NextST]_vars

\* get_cached_task_types
get_cached_task_types == cached_task_types

\* no loader thread is running and no set_ftrack_context is under way
NoLoaderRunning == loader_thread.state = "none" /\ context_pc = "idle"

\* C29 (the preload cache matches the current project): once no loader is
\* running, get_cached_task_types() returns None or the task types loaded
\* for the project id of the most recent set_ftrack_context call, under
\* every interleaving of the calls with the completion callback.
C29_CacheMatchesProject ==
    NoLoaderRunning =>
        \/ get_cached_task_types = None
        \/ cached_for = ftrack_project_id

\* a load that ran without a change of project filled the cache
C29_LoadedForCurrent ==
    /\ NoLoaderRunning
    /\ get_cached_task_types = ProjectTaskTypes(ftrack_project_id)
    /\ cached_for = ftrack_project_id

====
